---- MODULE Spec2Model ----
(***************************************************************************)
(* Token correlation and reply capture of Auto_Bidding: mailer.send_one /  *)
(* mailer.bulk_send, poller.poll_inbox / poller._save_attachments and the  *)
(* three log tables of db.py.                                              *)
(*                                                                         *)
(* Texts (subjects, bodies, tokens, file names, paths) are sequences of    *)
(* one-character strings, so that the regular expressions and the string   *)
(* methods of the source are computed character by character.              *)
(***************************************************************************)
EXTENDS Integers, Sequences, FiniteSets, TLC

(***************************************************************************)
(* Bounds of the model.                                                    *)
(***************************************************************************)
\* mails of the master mailbox that one behaviour's folder may hold
MaxItems == 2
\* top-level operations (send_one, bulk_send, poll_inbox) per behaviour
MaxOps == 2
\* rows of one bulk_send data frame
MaxRows == 2

(***************************************************************************)
(* Characters and the str methods used by the source.                      *)
(***************************************************************************)
Digits == {"0", "1", "2", "3", "4", "5", "6", "7", "8", "9"}

LowerSeq == << "a", "b", "c", "d", "e", "f", "g", "h", "i", "j", "k", "l", "m",
               "n", "o", "p", "q", "r", "s", "t", "u", "v", "w", "x", "y", "z" >>

UpperSeq == << "A", "B", "C", "D", "E", "F", "G", "H", "I", "J", "K", "L", "M",
               "N", "O", "P", "Q", "R", "S", "T", "U", "V", "W", "X", "Y", "Z" >>

UpperLetters == {UpperSeq[i] : i \in 1..26}

LowerLetters == {LowerSeq[i] : i \in 1..26}

Whitespace == {" ", "\t", "\n", "\r"}

\* str.upper() on one character
ToUpperChar(c) ==
    IF c \in LowerLetters
    THEN UpperSeq[CHOOSE i \in 1..26 : LowerSeq[i] = c]
    ELSE c

\* str.lower() on one character
ToLowerChar(c) ==
    IF c \in UpperLetters
    THEN LowerSeq[CHOOSE i \in 1..26 : UpperSeq[i] = c]
    ELSE c

\* str.upper()
Upper(s) == [i \in 1..Len(s) |-> ToUpperChar(s[i])]

\* str.lower()
Lower(s) == [i \in 1..Len(s) |-> ToLowerChar(s[i])]

\* str.strip(): leading and trailing whitespace removed
Strip(s) ==
    LET keep == {i \in 1..Len(s) : s[i] \notin Whitespace}
    IN  IF keep = {} THEN << >>
        ELSE LET lo == CHOOSE i \in keep : \A j \in keep : i <= j
                 hi == CHOOSE i \in keep : \A j \in keep : j <= i
             IN  SubSeq(s, lo, hi)

(***************************************************************************)
(* config.py                                                               *)
(***************************************************************************)
TOKEN_PREFIX == << "A", "B", "A", "#" >>

SUBJECT_BASE == <<
    "I", "n", "v", "i", "t", "a", "t", "i", "o", "n", " ", "t",
    "o", " ", "P", "a", "r", "t", "n", "e", "r", " ", "w", "i",
    "t", "h", " ", "A", "m", "a", "z", "o", "n", " ", "P", "r",
    "i", "v", "a", "t", "e", " ", "B", "r", "a", "n", "d", "s" >>

\* bytes per megabyte in the size test of _save_attachments (1024 * 1024)
BytesPerMB == 1048576

\* number of characters that follow the prefix in a token
TokenSuffixLen == 8

(***************************************************************************)
(* poller.TOKEN_RE = r"\[" + re.escape(TOKEN_PREFIX) + r"[A-Z0-9]{8}\]",     *)
(* compiled with re.I: the prefix and the class match in either case, and  *)
(* the match is returned as it stands in the text.                         *)
(***************************************************************************)
TokenReLen == Len(TOKEN_PREFIX) + TokenSuffixLen + 2

TOKEN_RE_matchAt(s, i) ==
    /\ i >= 1
    /\ i + TokenReLen - 1 <= Len(s)
    /\ s[i] = "["
    /\ \A k \in 1..Len(TOKEN_PREFIX) :
          ToUpperChar(s[i + k]) = ToUpperChar(TOKEN_PREFIX[k])
    /\ \A k \in 1..TokenSuffixLen :
          ToUpperChar(s[i + Len(TOKEN_PREFIX) + k]) \in (UpperLetters \cup Digits)
    /\ s[i + TokenReLen - 1] = "]"

\* TOKEN_RE.search(s) is not None
TOKEN_RE_found(s) == \E i \in 1..Len(s) : TOKEN_RE_matchAt(s, i)

\* TOKEN_RE.search(s).group(0): the leftmost match
TOKEN_RE_group0(s) ==
    LET i == CHOOSE j \in 1..Len(s) :
                 /\ TOKEN_RE_matchAt(s, j)
                 /\ \A k \in 1..(j - 1) : ~TOKEN_RE_matchAt(s, k)
    IN  SubSeq(s, i, i + TokenReLen - 1)

\* m.group(0)[1:-1]
StripBrackets(g) == SubSeq(g, 2, Len(g) - 1)

(***************************************************************************)
(* Text helpers of poller.py.                                              *)
(***************************************************************************)
\* the characters of the class [\\/:*?"<>|] of _sanitize_filename
BadFileChars == {"\\", "/", ":", "*", "?", "\"", "<", ">", "|"}

RECURSIVE SubBadRuns(_, _)
\* re.sub(r'[\\/:*?"<>|]+', "_", s) from position i on: one "_" per maximal run
SubBadRuns(s, i) ==
    IF i > Len(s) THEN << >>
    ELSE IF s[i] \in BadFileChars
         THEN (IF i > 1 /\ s[i - 1] \in BadFileChars THEN << >> ELSE << "_" >>)
              \o SubBadRuns(s, i + 1)
         ELSE << s[i] >> \o SubBadRuns(s, i + 1)

DefaultAttachmentName == << "a", "t", "t", "a", "c", "h", "m", "e", "n", "t" >>

\* poller._sanitize_filename
SanitizeFilename(name) ==
    LET t == Strip(SubBadRuns(name, 1))
    IN  IF t = << >> THEN DefaultAttachmentName ELSE t

\* the largest index of s holding a character of cs, 0 when there is none
RFind(s, cs) ==
    LET hit == {i \in 1..Len(s) : s[i] \in cs}
    IN  IF hit = {} THEN 0 ELSE CHOOSE i \in hit : \A j \in hit : j <= i

\* os.path.splitext: <<root, ext>>; the extension starts at the last dot of
\* the last path component, unless that component holds only leading dots
Splitext(p) ==
    LET sepIndex == RFind(p, {"/", "\\"})
        dotIndex == RFind(p, {"."})
    IN  IF /\ dotIndex > sepIndex
           /\ \E k \in (sepIndex + 1)..(dotIndex - 1) : p[k] # "."
        THEN << SubSeq(p, 1, dotIndex - 1), SubSeq(p, dotIndex, Len(p)) >>
        ELSE << p, << >> >>

DigitSeq == << "0", "1", "2", "3", "4", "5", "6", "7", "8", "9" >>

RECURSIVE IntToStr(_)
\* str(n) of a natural number, as the f-string of _unique_path formats idx
IntToStr(n) ==
    IF n < 10 THEN << DigitSeq[n + 1] >>
    ELSE IntToStr(n \div 10) \o << DigitSeq[(n % 10) + 1] >>

\* os.path.join(dest_dir, name)
PathJoin(dir, name) == dir \o << "/" >> \o name

RECURSIVE UniquePathFrom(_, _, _, _, _)
\* the while loop of _unique_path: p is the candidate, idx the next index
UniquePathFrom(exists, dest_dir, base_name, p, idx) ==
    IF p \notin exists THEN p
    ELSE LET se == Splitext(base_name)
         IN  UniquePathFrom(exists, dest_dir, base_name,
                 PathJoin(dest_dir,
                          se[1] \o << "(" >> \o IntToStr(idx) \o << ")" >> \o se[2]),
                 idx + 1)

\* the loop with its index starting at 0
UniquePathFromZero(exists, dest_dir, base_name) ==
    UniquePathFrom(exists, dest_dir, base_name, PathJoin(dest_dir, base_name), 0)

\* the target path taken without the existence test
UniquePathNoTest(exists, dest_dir, base_name) == PathJoin(dest_dir, base_name)

\* poller._unique_path, over the set of paths that exist
UniquePath(exists, dest_dir, base_name) ==
    UniquePathFrom(exists, dest_dir, base_name, PathJoin(dest_dir, base_name), 1)

RECURSIVE StripTags(_, _)
\* re.sub(r"<[^>]+>", " ", s) from position i on: "<", one or more
\* characters other than ">", and the next ">" become one blank
StripTags(s, i) ==
    IF i > Len(s) THEN << >>
    ELSE LET close == {j \in (i + 1)..Len(s) : s[j] = ">"}
             first == CHOOSE j \in close : \A k \in close : j <= k
         IN  IF s[i] = "<" /\ close # {} /\ first >= i + 2
             THEN << " " >> \o StripTags(s, first + 1)
             ELSE << s[i] >> \o StripTags(s, i + 1)

RECURSIVE SubSpaceNewline(_, _)
\* re.sub(r"\s+\n", "\n", s) from position i on: a whitespace run up to its
\* last newline becomes that newline
SubSpaceNewline(s, i) ==
    IF i > Len(s) THEN << >>
    ELSE LET run == {j \in i..Len(s) : \A k \in i..j : s[k] \in Whitespace}
             nl  == {j \in run : j > i /\ s[j] = "\n"}
             last == CHOOSE j \in nl : \A k \in nl : k <= j
         IN  IF nl # {}
             THEN << "\n" >> \o SubSpaceNewline(s, last + 1)
             ELSE << s[i] >> \o SubSpaceNewline(s, i + 1)

RECURSIVE SubBlankRuns(_, _)
\* re.sub(r"[ \t]{2,}", " ", s) from position i on
SubBlankRuns(s, i) ==
    IF i > Len(s) THEN << >>
    ELSE LET run == {j \in i..Len(s) : \A k \in i..j : s[k] \in {" ", "\t"}}
             last == CHOOSE j \in run : \A k \in run : k <= j
         IN  IF Cardinality(run) >= 2
             THEN << " " >> \o SubBlankRuns(s, last + 1)
             ELSE << s[i] >> \o SubBlankRuns(s, i + 1)

MAX_BODY_TEXT_CHARS == 100000

\* the body_text of poll_inbox: the plain body, or, when that is empty, the
\* HTML body with tags and blank runs replaced; cut at MAX_BODY_TEXT_CHARS
BodyText(body_plain, body_html) ==
    LET t == IF body_plain # << >> THEN body_plain
             ELSE IF body_html # << >>
                  THEN SubBlankRuns(SubSpaceNewline(StripTags(body_html, 1), 1), 1)
                  ELSE body_plain
    IN  IF Len(t) > MAX_BODY_TEXT_CHARS THEN SubSeq(t, 1, MAX_BODY_TEXT_CHARS) ELSE t

(***************************************************************************)
(* State.                                                                  *)
(*                                                                         *)
(* mail_log, reply_log, attachment_log: the tables of db.py, each the      *)
(*   sequence of its rows in id order (AUTOINCREMENT).  The columns that   *)
(*   hold the wall-clock time of the write (sent_on, created_at) are left  *)
(*   out.                                                                  *)
(* files: the attachment directory, a set of <<path, content>> pairs.      *)
(* folders: the candidate folders of the mailbox, with their items.        *)
(* MAX_ATTACH_SIZE_MB: the configured size ceiling (0 = no ceiling).       *)
(* clock: the number of datetime.now() values poll_inbox has used as a     *)
(*   received time.                                                        *)
(* ops: the top-level operations called so far.                            *)
(* bulk: the bulk_send invocation: its rows, its position and results.     *)
(* poll: the poll_inbox invocation: its position, its counters, and db,    *)
(*   what the store did in the accesses for the latest matched item.       *)
(* last_send: the latest send_one call: its arguments and what it returned. *)
(* capture: the latest _save_attachments call of the running scan: its     *)
(*   message, the value it returned, and the length of attachment_log and  *)
(*   the directory as they were when it was called.                        *)
(* threads: the threads (or processes) that run operations side by side,   *)
(*   each with its local variables; empty while the operations are taken   *)
(*   one at a time.                                                        *)
(* POLL_MAX_SCAN: the configured number of items a scan reads per folder.  *)
(* SCAN_FOLDERS: the configured folder paths.                              *)
(* ns: the stores of the MAPI namespace, each with its inbox and the       *)
(*   folders below it.                                                     *)
(* scan: poll_inbox seen folder by folder: the candidate folders it        *)
(*   resolved, the one it is at, and the folders whose items it went       *)
(*   through.                                                              *)
(* unique: a call of _unique_path seen by itself: its arguments and the    *)
(*   path it returned.                                                     *)
(***************************************************************************)
VARIABLES mail_log, reply_log, attachment_log, files, folders,
          MAX_ATTACH_SIZE_MB, clock, ops, last_send, bulk, poll, capture,
          threads, POLL_MAX_SCAN, SCAN_FOLDERS, ns, scan, unique

vars == << mail_log, reply_log, attachment_log, files, folders,
           MAX_ATTACH_SIZE_MB, clock, ops, last_send, bulk, poll, capture,
           threads, POLL_MAX_SCAN, SCAN_FOLDERS, ns, scan, unique >>

\* the folder paths, the stores and the folder-level scan where the
\* candidate folders are given directly
NoFolderScan ==
    /\ SCAN_FOLDERS = << >>
    /\ ns = << >>
    /\ scan = [pc |-> "idle", candidates |-> << >>, k |-> 0, scanned |-> << >>]

Empty == << >>

\* no call of _unique_path is looked at by itself
NoUnique == [pc |-> "idle", dest_dir |-> Empty, base_name |-> Empty, p |-> Empty]

(***************************************************************************)
(* db.py                                                                   *)
(***************************************************************************)
\* INSERT OR REPLACE without the UNIQUE(token) conflict handling
insert_mail_log_no_replace(log, row) == Append(log, row)

\* db.insert_mail_log: INSERT OR REPLACE INTO mail_log, token TEXT UNIQUE:
\* the row that holds the token is deleted, the new row gets a new id
insert_mail_log(log, row) ==
    LET other(r) == r.token # row.token
    IN  Append(SelectSeq(log, other), row)

\* the key of UNIQUE(token, from_email, received_on)
ReplyKey(r) == << r.token, r.from_email, r.received_on >>

\* INSERT without the OR IGNORE conflict handling
insert_reply_log_no_ignore(log, row) == Append(log, row)

\* INSERT OR REPLACE INTO reply_log: the row of the same key is deleted and
\* the new one appended
insert_reply_log_replace(log, row) ==
    Append(SelectSeq(log, LAMBDA r : ReplyKey(r) # ReplyKey(row)), row)

\* db.insert_reply_log: INSERT OR IGNORE INTO reply_log
insert_reply_log(log, row) ==
    IF \E i \in 1..Len(log) : ReplyKey(log[i]) = ReplyKey(row)
    THEN log
    ELSE Append(log, row)

\* db.insert_attachment_log: INSERT INTO attachment_log
insert_attachment_log(log, row) == Append(log, row)

\* the lookup answering with a placeholder company when no row is found
get_mail_meta_by_token_placeholder(log, token) ==
    LET hit == {i \in 1..Len(log) : log[i].token = token}
    IN  IF hit = {}
        THEN [company |-> << "?" >>, collection_id |-> Empty, product_desc |-> Empty]
        ELSE LET i == CHOOSE j \in hit : \A k \in hit : k <= j
             IN  [company |-> log[i].company,
                  collection_id |-> log[i].collection_id,
                  product_desc |-> log[i].product_desc]

\* db.get_mail_meta_by_token: WHERE token = ? ORDER BY id DESC LIMIT 1, the
\* comparison being that of a TEXT column (binary, case-sensitive)
get_mail_meta_by_token(log, token) ==
    LET hit == {i \in 1..Len(log) : log[i].token = token}
    IN  IF hit = {}
        THEN [company |-> Empty, collection_id |-> Empty, product_desc |-> Empty]
        ELSE LET i == CHOOSE j \in hit : \A k \in hit : k <= j
             IN  [company |-> log[i].company,
                  collection_id |-> log[i].collection_id,
                  product_desc |-> log[i].product_desc]

(***************************************************************************)
(* mailer.py                                                               *)
(***************************************************************************)
\* values uuid.uuid4().hex[:8] can take: eight lowercase hexadecimal digits
Hex1 == << "1", "2", "a", "b", "3", "4", "c", "d" >>

Hex2 == << "0", "f", "0", "f", "0", "f", "0", "f" >>

Hex8Outcomes == {Hex1, Hex2}

\* a token issued without .upper()
IssueTokenNoUpper(hex8) == TOKEN_PREFIX \o hex8

\* f"{TOKEN_PREFIX}{uuid.uuid4().hex[:8].upper()}"
IssueToken(hex8) == TOKEN_PREFIX \o Upper(hex8)

\* the subject without the brackets around the token
ComposeSubjectNoBrackets(token) == token \o << " " >> \o SUBJECT_BASE

\* f"[{token}] {SUBJECT_BASE}"
ComposeSubject(token) == << "[" >> \o token \o << "]", " " >> \o SUBJECT_BASE

\* what the sent-items lookup of send_one can yield: the identifiers of the
\* sent message, nothing (no subject among the newest holds the token), or
\* an exception; the last two leave entryid and conversation_id None
\* the number of sent items send_one looks at, at most: min(50, items.Count)
SentScanMax == 50

\* a view of the Sent Items folder after a send, newest first: folderOk
\* tells whether the folder, its Items, their sort and their Count can be
\* had, count is the number of items, pos the place of the first item
\* whose subject contains the token (0 when there is none), badAt the place
\* of an item that cannot be read (0 when there is none), convOk whether
\* the ConversationID of the item at pos can be read
SentView(count, pos, badAt, convOk) ==
    [folderOk |-> TRUE, count |-> count, pos |-> pos, badAt |-> badAt, convOk |-> convOk]

\* the number of items the loop of the lookup reads
SentItemsInspected(v) ==
    LET n == IF v.count < SentScanMax THEN v.count ELSE SentScanMax
        stops == {i \in {v.pos, v.badAt} : 1 <= i /\ i <= n}
    IN  IF ~v.folderOk THEN 0
        ELSE IF stops = {} THEN n
        ELSE CHOOSE i \in stops : \A j \in stops : i <= j

\* what the lookup in Sent Items comes to: "found" when the item at pos is
\* reached and read, "none" when the loop ends without a match, "raise"
\* when an exception ends the lookup before the EntryID of a match is
\* read, "raise_after_entryid" when reading the ConversationID of the match
\* raises
SentItemsLookup(v) ==
    LET last == SentItemsInspected(v)
    IN  IF ~v.folderOk THEN "raise"
        ELSE IF last >= 1 /\ last = v.badAt THEN "raise"
        ELSE IF last >= 1 /\ last = v.pos
        THEN (IF v.convOk THEN "found" ELSE "raise_after_entryid")
        ELSE "none"

\* the views of Sent Items the model draws from: the message first; the
\* message last within the bound; the message just beyond the bound; no
\* such message; a folder that cannot be read; an unreadable item before
\* the message; an unreadable item after it; a message whose ConversationID
\* cannot be read
SentFirst == SentView(3, 1, 0, TRUE)

SentAtBound == SentView(SentScanMax + 10, SentScanMax, 0, TRUE)

SentBeyondBound == SentView(SentScanMax + 10, SentScanMax + 1, 0, TRUE)

SentAbsent == SentView(2, 0, 0, TRUE)

SentFolderRaises == [SentView(3, 1, 0, TRUE) EXCEPT !.folderOk = FALSE]

SentItemRaises == SentView(3, 2, 1, TRUE)

SentLaterItemBad == SentView(3, 1, 2, TRUE)

SentConversationRaises == SentView(3, 1, 0, FALSE)

SentLookups == {SentFirst, SentAtBound, SentBeyondBound, SentAbsent, SentFolderRaises, SentItemRaises, SentLaterItemBad, SentConversationRaises}

SentEntryID == << "E" >>

SentConversationID == << "C" >>

\* the row send_one passes to insert_mail_log
MailRow(to_email, company, collection_id, product_desc, token, lookup) ==
    [email |-> to_email,
     company |-> company,
     token |-> token,
     subject |-> ComposeSubject(token),
     entryid |-> IF SentItemsLookup(lookup) \in {"found", "raise_after_entryid"}
                 THEN SentEntryID ELSE Empty,
     conversation_id |-> IF SentItemsLookup(lookup) = "found"
                         THEN SentConversationID ELSE Empty,
     status |-> "SENT",
     collection_id |-> collection_id,
     product_desc |-> product_desc]

\* texts the send operations are called with
Acme == << "A", "c", "m", "e" >>

TopicT1 == << "T", "1" >>

DescD1 == << "D", "1" >>

EmailA == << "a", "@", "x", ".", "c", "o", "m" >>

EmailB == << "b", "@", "y", ".", "o", "r", "g" >>

ValuedSupplier == << "V", "a", "l", "u", "e", "d", " ",
                     "S", "u", "p", "p", "l", "i", "e", "r" >>

NoSend == [status |-> "none", to_email |-> Empty, company |-> Empty,
           collection_id |-> Empty, product_desc |-> Empty,
           token |-> Empty, subject |-> Empty, lookup |-> "none",
           dispatched |-> FALSE]

\* send_one with the send record written before the message is rendered
\* and sent
send_one_record_first(to_email, company, collection_id, product_desc, hex8, dispatchOk, lookup) ==
    /\ mail_log' = insert_mail_log(mail_log,
                       MailRow(to_email, company, collection_id,
                               product_desc, IssueToken(hex8), lookup))
    /\ last_send' = [status |-> IF dispatchOk THEN "returned" ELSE "raised",
                     to_email |-> to_email, company |-> company,
                     collection_id |-> collection_id,
                     product_desc |-> product_desc,
                     token |-> IF dispatchOk THEN IssueToken(hex8) ELSE Empty,
                     subject |-> IF dispatchOk THEN ComposeSubject(IssueToken(hex8))
                                 ELSE Empty,
                     lookup |-> IF dispatchOk THEN SentItemsLookup(lookup) ELSE "none",
                     dispatched |-> dispatchOk]

\* mailer.send_one.  hex8 is the uuid4 draw; dispatchOk is false when
\* rendering, CreateItem, Save or Send raises (the function then raises
\* before insert_mail_log); dispatched tells whether mail.Send() returned;
\* lookup is the view of Sent Items the search
\* for the identifiers runs on.
send_one(to_email, company, collection_id, product_desc, hex8, dispatchOk, lookup) ==
    LET token == IssueToken(hex8)
        subject == ComposeSubject(token)
    IN  IF dispatchOk
        THEN /\ mail_log' = insert_mail_log(mail_log,
                                MailRow(to_email, company, collection_id,
                                        product_desc, token, lookup))
             /\ last_send' = [status |-> "returned", to_email |-> to_email,
                              company |-> company,
                              collection_id |-> collection_id,
                              product_desc |-> product_desc,
                              token |-> token, subject |-> subject,
                              lookup |-> SentItemsLookup(lookup),
                              dispatched |-> TRUE]
        ELSE /\ mail_log' = mail_log
             /\ last_send' = [status |-> "raised", to_email |-> to_email,
                              company |-> company,
                              collection_id |-> collection_id,
                              product_desc |-> product_desc,
                              token |-> Empty, subject |-> Empty,
                              lookup |-> "none", dispatched |-> FALSE]

\* the records of the operations that are not running: a call starts with
\* the frames and return values of the earlier calls gone
NoBulk == [pc |-> "idle", rows |-> << >>, idx |-> 0, results |-> << >>, trace |-> << >>]

NoPoll == [pc |-> "idle", f |-> 0, i |-> 0, hits |-> 0, scanned |-> 0, db |-> "ok"]

NoCapture == [status |-> "none", msg |-> << >>, company |-> Empty,
              token |-> Empty, collection_id |-> Empty, saved |-> 0,
              rows_before |-> 0, files_before |-> {}]

\* no top-level operation is running (the operations run one at a time)
Idle == bulk.pc # "loop" /\ poll.pc # "scan"

\* a direct call of send_one
SendOne ==
    /\ Idle
    /\ ops < MaxOps
    /\ ops' = ops + 1
    /\ \E hex8 \in Hex8Outcomes, dispatchOk \in BOOLEAN, lookup \in SentLookups :
          send_one(EmailA, Empty, TopicT1, DescD1, hex8, dispatchOk, lookup)
    /\ bulk' = NoBulk
    /\ poll' = NoPoll
    /\ capture' = NoCapture
    /\ UNCHANGED << unique, POLL_MAX_SCAN, SCAN_FOLDERS, ns, scan, threads, reply_log, attachment_log, files, folders,
                    MAX_ATTACH_SIZE_MB, clock >>

\* a cell of the contacts data frame: NaN / None, or a str
NaN == [isna |-> TRUE, text |-> Empty]

Cell(text) == [isna |-> FALSE, text |-> text]

\* mailer._safe_str
SafeStr(v) == IF v.isna THEN Empty ELSE Strip(v.text)

\* the rows the contacts data frames are made of; sendRaises tells whether
\* the render/send step raises for the row's recipient, lookup what the
\* sent-items search yields after the row's message is sent
MasterRows ==
    << [Email |-> Cell(EmailA), Company |-> Cell(Acme),
        Collection |-> Cell(TopicT1), Product |-> Cell(DescD1),
        sendRaises |-> FALSE, lookup |-> SentFirst],
       [Email |-> Cell(<< " " >> \o EmailB), Company |-> NaN,
        Collection |-> Cell(TopicT1), Product |-> NaN,
        sendRaises |-> FALSE, lookup |-> SentFolderRaises],
       [Email |-> Cell(EmailA), Company |-> Cell(Acme),
        Collection |-> Cell(TopicT1), Product |-> Cell(DescD1),
        sendRaises |-> TRUE, lookup |-> SentFirst],
       [Email |-> Cell(<< " " >>), Company |-> Cell(Acme),
        Collection |-> Cell(TopicT1), Product |-> Cell(DescD1),
        sendRaises |-> FALSE, lookup |-> SentFirst],
       [Email |-> Cell(EmailA), Company |-> Cell(Acme),
        Collection |-> Cell(TopicT1), Product |-> Cell(DescD1),
        sendRaises |-> FALSE, lookup |-> SentBeyondBound] >>

\* the runs of at most n consecutive members of a sequence
Windows(s, n) ==
    {SubSeq(s, w[1], w[2]) :
        w \in {p \in (1..Len(s)) \X (0..Len(s)) : p[2] - p[1] + 1 \in 0..n}}

\* the data frames bulk_send is called with
ContactFrames == Windows(MasterRows, MaxRows)

\* bulk_send is called with a data frame
BulkStart ==
    /\ Idle
    /\ ops < MaxOps
    /\ ops' = ops + 1
    /\ \E rows \in ContactFrames :
          bulk' = [pc |-> "loop", rows |-> rows, idx |-> 0, results |-> << >>, trace |-> << >>]
    /\ last_send' = NoSend
    /\ poll' = NoPoll
    /\ capture' = NoCapture
    /\ UNCHANGED << unique, POLL_MAX_SCAN, SCAN_FOLDERS, ns, scan, threads, mail_log, reply_log, attachment_log, files, folders,
                    MAX_ATTACH_SIZE_MB, clock >>

\* the row the loop of bulk_send is about to take
BulkRow == bulk.rows[bulk.idx + 1]

\* one turn of the loop on a row without an address: continue
BulkSkipRow ==
    /\ bulk.pc = "loop"
    /\ bulk.idx < Len(bulk.rows)
    /\ SafeStr(BulkRow.Email) = Empty
    /\ bulk' = [bulk EXCEPT !.idx = @ + 1]
    /\ UNCHANGED << unique, POLL_MAX_SCAN, SCAN_FOLDERS, ns, scan, threads, mail_log, reply_log, attachment_log, files, folders,
                    MAX_ATTACH_SIZE_MB, clock, ops, last_send, poll, capture >>

\* what bulk_send does when the send_one call of a row raises: there is no
\* handler in the loop, the exception leaves bulk_send and results is lost
BulkAfterRaise(b) == [b EXCEPT !.pc = "raised", !.idx = @ + 1, !.results = << >>]

\* a turn of the loop that goes to the next row at once
BulkTurnEventsNoSleep(email) == << [op |-> "send", email |-> email] >>

\* what a turn of the loop does in time when send_one returns: the send to
\* the row's address, then time.sleep(SEND_THROTTLE)
BulkTurnEvents(email) ==
    << [op |-> "send", email |-> email], [op |-> "sleep", email |-> Empty] >>

\* one turn of the loop on a row with an address: send_one, then the result
\* is appended and the loop sleeps for SEND_THROTTLE
BulkSendRow ==
    /\ bulk.pc = "loop"
    /\ bulk.idx < Len(bulk.rows)
    /\ LET email == SafeStr(BulkRow.Email)
           company == IF SafeStr(BulkRow.Company) = Empty THEN ValuedSupplier
                      ELSE SafeStr(BulkRow.Company)
           collection_id == SafeStr(BulkRow.Collection)
           product_desc == SafeStr(BulkRow.Product)
       IN  /\ email # Empty
           /\ \E hex8 \in Hex8Outcomes :
                 send_one(email, company, collection_id, product_desc,
                          hex8, ~BulkRow.sendRaises, BulkRow.lookup)
           /\ bulk' = IF BulkRow.sendRaises
                      THEN BulkAfterRaise(bulk)
                      ELSE [bulk EXCEPT
                              !.idx = @ + 1,
                              !.trace = @ \o BulkTurnEvents(email),
                              !.results = Append(@,
                                  [email |-> email, company |-> company,
                                   collection_id |-> collection_id,
                                   product_desc |-> product_desc,
                                   token |-> last_send'.token,
                                   subject |-> last_send'.subject])]
    /\ UNCHANGED << unique, POLL_MAX_SCAN, SCAN_FOLDERS, ns, scan, threads, reply_log, attachment_log, files, folders,
                    MAX_ATTACH_SIZE_MB, clock, ops, poll, capture >>

\* the loop is over: return results
BulkReturn ==
    /\ bulk.pc = "loop"
    /\ bulk.idx = Len(bulk.rows)
    /\ bulk' = [bulk EXCEPT !.pc = "returned"]
    /\ UNCHANGED << unique, POLL_MAX_SCAN, SCAN_FOLDERS, ns, scan, threads, mail_log, reply_log, attachment_log, files, folders,
                    MAX_ATTACH_SIZE_MB, clock, ops, last_send, poll, capture >>

(***************************************************************************)
(* poller.py: attachments.                                                 *)
(*                                                                         *)
(* An attachment of a mail item is a record: readable (atts.Item(i) does   *)
(* not raise), FileName and nameOk (reading it does not raise), Size and   *)
(* sizeOk, saveOk (SaveAsFile does not raise), hashOk (the saved file can  *)
(* be read back for hashing) and content, the bytes of the file.           *)
(***************************************************************************)
\* hashlib.sha256 of a file's bytes, as hexdigest: never empty, and one
\* digest per content
Sha256(content) == << "#", content >>

\* the size test of _save_attachments with >= for >
OverCeilingInclusive(ceilingMB, fsize) ==
    ceilingMB # 0 /\ fsize >= ceilingMB * BytesPerMB

\* MAX_ATTACH_SIZE_MB and fsize > MAX_ATTACH_SIZE_MB * 1024 * 1024
OverCeiling(ceilingMB, fsize) ==
    ceilingMB # 0 /\ fsize > ceilingMB * BytesPerMB

\* f"attachment_{i}"
AttachmentN(i) == DefaultAttachmentName \o << "_" >> \o IntToStr(i)

\* orig_fname of attachment i
OrigFname(att, i) ==
    IF att.nameOk
    THEN SanitizeFilename(IF att.FileName = Empty THEN AttachmentN(i) ELSE att.FileName)
    ELSE AttachmentN(i)

\* fsize of an attachment: int(att.Size), 0 when the read raises
Fsize(att) == IF att.sizeOk THEN att.Size ELSE 0

\* safe_collection: the directory of the topic, relative to ATTACH_BASE_DIR
DestDir(collection_id) ==
    SanitizeFilename(IF collection_id = Empty
                     THEN << "u", "n", "c", "a", "t", "e", "g", "o", "r", "i", "z", "e", "d" >>
                     ELSE collection_id)

\* target_fname: name_core and the lowercased extension of orig_fname
TargetFname(company, token, att, i) ==
    LET safe_company == SanitizeFilename(company)
        safe_token == SanitizeFilename(token)
        ext == Lower(Splitext(OrigFname(att, i))[2])
        name_core == IF safe_company # Empty
                     THEN safe_company \o << "_" >> \o safe_token
                     ELSE safe_token
    IN  name_core \o ext

\* the row of attachment_log written for an attachment
AttachmentRow(token, msg_entryid, received_on, company, att, i, saved_path, sha) ==
    [token |-> token,
     msg_entryid |-> msg_entryid,
     received_on |-> received_on,
     file_name |-> TargetFname(company, token, att, i),
     file_ext |-> Lower(Splitext(OrigFname(att, i))[2]),
     file_size_bytes |-> Fsize(att),
     saved_path |-> saved_path,
     sha256 |-> sha]

\* os.path.exists answering False for every path
ExistingPathsNone(fs) == {}

\* the paths that exist in the attachment directory (os.path.exists)
ExistingPaths(fs) == {f[1] : f \in fs}

\* att.SaveAsFile(path): the file at path now holds the attachment's bytes
SaveAsFile(fs, path, content) ==
    {f \in fs : f[1] # path} \cup { << path, content >> }

\* a turn of the loop that lets the exception of SaveAsFile end the turn
\* with nothing recorded
SaveOneAttachmentUnlogged(st, ceilingMB, company, token, collection_id, att, i, msg_entryid, received_on) ==
    LET row(path, sha) == AttachmentRow(token, msg_entryid, received_on,
                                        company, att, i, path, sha)
        save_path == UniquePath(ExistingPaths(st.files), DestDir(collection_id),
                                TargetFname(company, token, att, i))
    IN  IF ~att.readable THEN st
        ELSE IF OverCeiling(ceilingMB, Fsize(att))
        THEN [st EXCEPT !.log = insert_attachment_log(@, row(Empty, Empty))]
        ELSE IF ~att.saveOk
        THEN st
        ELSE [log |-> insert_attachment_log(st.log,
                         row(save_path,
                             IF att.hashOk THEN Sha256(att.content) ELSE Empty)),
              files |-> SaveAsFile(st.files, save_path, att.content),
              saved |-> st.saved + 1]

\* a turn of the loop that hashes the attachment before it saves it, and
\* records the hash also when SaveAsFile raises
SaveOneAttachmentHashFirst(st, ceilingMB, company, token, collection_id, att, i, msg_entryid, received_on) ==
    LET row(path, sha) == AttachmentRow(token, msg_entryid, received_on,
                                        company, att, i, path, sha)
        save_path == UniquePath(ExistingPaths(st.files), DestDir(collection_id),
                                TargetFname(company, token, att, i))
        sha == IF att.hashOk THEN Sha256(att.content) ELSE Empty
    IN  IF ~att.readable THEN st
        ELSE IF OverCeiling(ceilingMB, Fsize(att))
        THEN [st EXCEPT !.log = insert_attachment_log(@, row(Empty, Empty))]
        ELSE IF ~att.saveOk
        THEN [st EXCEPT !.log = insert_attachment_log(@, row(Empty, sha))]
        ELSE [log |-> insert_attachment_log(st.log, row(save_path, sha)),
              files |-> SaveAsFile(st.files, save_path, att.content),
              saved |-> st.saved + 1]

\* one turn of the loop of _save_attachments, on attachment i, from the
\* state st = [log, files, saved] of attachment_log, the directory and the
\* local counter
SaveOneAttachment(st, ceilingMB, company, token, collection_id, att, i, msg_entryid, received_on) ==
    LET row(path, sha) == AttachmentRow(token, msg_entryid, received_on,
                                        company, att, i, path, sha)
        save_path == UniquePath(ExistingPaths(st.files), DestDir(collection_id),
                                TargetFname(company, token, att, i))
    IN  IF ~att.readable THEN st
        ELSE IF OverCeiling(ceilingMB, Fsize(att))
        THEN [st EXCEPT !.log = insert_attachment_log(@, row(Empty, Empty))]
        ELSE IF ~att.saveOk
        THEN [st EXCEPT !.log = insert_attachment_log(@, row(Empty, Empty))]
        ELSE [log |-> insert_attachment_log(st.log,
                         row(save_path,
                             IF att.hashOk THEN Sha256(att.content) ELSE Empty)),
              files |-> SaveAsFile(st.files, save_path, att.content),
              saved |-> st.saved + 1]

RECURSIVE SaveAttachmentsFrom(_, _, _, _, _, _, _, _, _)
\* the loop of _save_attachments from attachment i on
SaveAttachmentsFrom(st, ceilingMB, company, token, collection_id, atts, i, msg_entryid, received_on) ==
    IF i > Len(atts) THEN st
    ELSE SaveAttachmentsFrom(
             SaveOneAttachment(st, ceilingMB, company, token, collection_id,
                               atts[i], i, msg_entryid, received_on),
             ceilingMB, company, token, collection_id, atts, i + 1,
             msg_entryid, received_on)

\* a _save_attachments that returns the number of rows it recorded
save_attachments_recorded(log, fs, ceilingMB, company, token, collection_id, msg, msg_entryid, received_on) ==
    IF ~msg.attsOk \/ Len(msg.Attachments) = 0
    THEN [log |-> log, files |-> fs, saved |-> 0]
    ELSE LET st == SaveAttachmentsFrom([log |-> log, files |-> fs, saved |-> 0],
                                       ceilingMB, company, token, collection_id,
                                       msg.Attachments, 1, msg_entryid, received_on)
         IN  [st EXCEPT !.saved = Len(st.log) - Len(log)]

\* poller._save_attachments on a message msg: the state [log, files, saved]
\* it leaves; saved is the value it returns
save_attachments(log, fs, ceilingMB, company, token, collection_id, msg, msg_entryid, received_on) ==
    IF ~msg.attsOk \/ Len(msg.Attachments) = 0
    THEN [log |-> log, files |-> fs, saved |-> 0]
    ELSE SaveAttachmentsFrom([log |-> log, files |-> fs, saved |-> 0],
                             ceilingMB, company, token, collection_id,
                             msg.Attachments, 1, msg_entryid, received_on)

(***************************************************************************)
(* poller.py: the scan.                                                    *)
(*                                                                         *)
(* A mail item is a record: itemOk (items.Item(i) does not raise); the     *)
(* properties Subject, Body, HTMLBody, ReceivedTime, Attachments, each     *)
(* with a flag telling whether reading it succeeds (a read that fails      *)
(* raises pythoncom.com_error, which getattr's default does not absorb);   *)
(* the three sources of the sender's address, empty when missing or        *)
(* unreadable; and EntryID, empty when unreadable.                         *)
(* A folder is a record: itemsOk (folder.Items and items.Sort do not       *)
(* raise) and its items.                                                   *)
(***************************************************************************)
\* poller._sender_email
SenderEmail(it) ==
    IF it.exchangeSmtp # Empty THEN it.exchangeSmtp
    ELSE IF it.senderAddress # Empty THEN it.senderAddress
    ELSE it.SenderEmailAddress

RECURSIVE InsertByTime(_, _)
\* it placed into a list that is sorted newest first, after its equals
InsertByTime(sorted, it) ==
    IF sorted = << >> THEN << it >>
    ELSE IF Head(sorted).ReceivedTime >= it.ReceivedTime
         THEN << Head(sorted) >> \o InsertByTime(Tail(sorted), it)
         ELSE << it >> \o sorted

RECURSIVE SortNewestFirst(_)
\* items.Sort("[ReceivedTime]", True)
SortNewestFirst(items) ==
    IF items = << >> THEN << >>
    ELSE InsertByTime(SortNewestFirst(SubSeq(items, 1, Len(items) - 1)),
                      items[Len(items)])

\* a count that takes every item of the folder
ScanCountAll(folder) == Len(folder.items)

\* count = min(POLL_MAX_SCAN, items.Count)
ScanCount(folder) ==
    IF Len(folder.items) < POLL_MAX_SCAN THEN Len(folder.items) ELSE POLL_MAX_SCAN

RECURSIVE FirstItemFrom(_, _)
\* the first position <<folder, item>> of the scan at or after folder f: a
\* folder whose Items or Sort raises is passed over; past the last folder
\* the item index is 0
FirstItemFrom(fs, f) ==
    IF f > Len(fs) THEN << f, 0 >>
    ELSE IF ~fs[f].itemsOk \/ ScanCount(fs[f]) = 0 THEN FirstItemFrom(fs, f + 1)
    ELSE << f, 1 >>

\* the position after item i of folder f
NextItem(fs, f, i) ==
    IF i < ScanCount(fs[f]) THEN << f, i + 1 >> ELSE FirstItemFrom(fs, f + 1)

\* the item the scan is at
CurrentItem == SortNewestFirst(folders[poll.f].items)[poll.i]

\* the text the fallback search of poll_inbox runs on: the raw HTMLBody,
\* empty when reading it raises
HtmlTokenSource(it) == IF it.htmlOk THEN it.HTMLBody ELSE Empty

\* token = m.group(0)[1:-1]
MatchedToken(g) == StripBrackets(g)

\* the search with the plain body tried before the subject
ExtractTokenBodyFirst(it) ==
    IF TOKEN_RE_found(it.Body) THEN MatchedToken(TOKEN_RE_group0(it.Body))
    ELSE IF TOKEN_RE_found(it.Subject) THEN MatchedToken(TOKEN_RE_group0(it.Subject))
    ELSE IF TOKEN_RE_found(HtmlTokenSource(it))
         THEN MatchedToken(TOKEN_RE_group0(HtmlTokenSource(it)))
         ELSE Empty

\* the token poll_inbox takes from an item whose Subject and Body are
\* readable: from the subject, else the plain body, else the HTML body;
\* Empty when none holds a match (token stays None)
ExtractToken(it) ==
    IF TOKEN_RE_found(it.Subject) THEN MatchedToken(TOKEN_RE_group0(it.Subject))
    ELSE IF TOKEN_RE_found(it.Body) THEN MatchedToken(TOKEN_RE_group0(it.Body))
    ELSE IF TOKEN_RE_found(HtmlTokenSource(it))
         THEN MatchedToken(TOKEN_RE_group0(HtmlTokenSource(it)))
         ELSE Empty

\* a flag that is set for every item
HasAttachmentsAlways(it) == 1

\* has_attachments
HasAttachments(it) == IF it.attsOk /\ Len(it.Attachments) > 0 THEN 1 ELSE 0

\* a capture that is run for newly recorded replies only
CaptureRunsIfNew(it, log, row) ==
    HasAttachments(it) = 1 /\ insert_reply_log(log, row) # log

\* `if has_attachments:` after the reply row row was handed to
\* insert_reply_log on the table log: the test reads the flag only
CaptureRuns(it, log, row) == HasAttachments(it) = 1

\* str(it.ReceivedTime), or the current time in ISO format when the read
\* raises; the two formats differ, so the values are kept apart by src
ReceivedOn(it, now) ==
    IF it.timeOk THEN [src |-> "item", t |-> it.ReceivedTime]
    ELSE [src |-> "now", t |-> now]

\* the row poll_inbox passes to insert_reply_log
ReplyRow(it, token, meta, now) ==
    [token |-> token,
     company |-> meta.company,
     from_email |-> SenderEmail(it),
     received_on |-> ReceivedOn(it, now),
     has_attachments |-> HasAttachments(it),
     parse_ok |-> 0,
     parse_json |-> [subject |-> it.Subject,
                     body_text |-> BodyText(it.Body,
                                            IF it.htmlOk THEN it.HTMLBody ELSE Empty)],
     collection_id |-> meta.collection_id,
     product_desc |-> meta.product_desc]

\* config.POLL_LOOKBACK_MINUTES: the last 7 days
POLL_LOOKBACK_MINUTES == 7 * 24 * 60

\* the received times of the mails count days; a day in minutes
MinutesPerDay == 24 * 60

\* datetime.now() at the start of a scan, as a day: later than every mail of
\* the mailbox, the oldest of which are more than 7 days old
Today == 12

\* poller._cutoff_dt, in minutes: datetime.now() - timedelta(minutes=...);
\* poll_inbox computes it once, before the folders are opened
cutoff_dt == Today * MinutesPerDay - POLL_LOOKBACK_MINUTES

\* the mail was received before the cutoff
BeforeCutoff(it, cutoff) == it.timeOk /\ it.ReceivedTime * MinutesPerDay < cutoff

\* a cutoff test that drops the mails received before the cutoff
CutoffSkipsOlder(it, cutoff) == BeforeCutoff(it, cutoff)

\* the block "Optional cutoff" of the item loop: ReceivedTime is read, an
\* exception of the read is caught, and both branches of the test of the
\* value are `pass`: no item is dropped, and cutoff is not read
CutoffSkips(it, cutoff) == FALSE

\* poll_inbox is called: the counters are zeroed and the scan is placed on
\* the first item of the first folder that yields items
PollStart ==
    /\ Idle
    /\ ops < MaxOps
    /\ ops' = ops + 1
    /\ LET pos == FirstItemFrom(folders, 1)
       IN  poll' = [pc |-> "scan", f |-> pos[1], i |-> pos[2],
                    hits |-> 0, scanned |-> 0, db |-> "ok"]
    /\ last_send' = NoSend
    /\ bulk' = NoBulk
    /\ capture' = NoCapture
    /\ UNCHANGED << unique, POLL_MAX_SCAN, SCAN_FOLDERS, ns, scan, threads, mail_log, reply_log, attachment_log, files, folders,
                    MAX_ATTACH_SIZE_MB, clock >>

\* the scan is on an item
AtItem == poll.pc = "scan" /\ poll.f <= Len(folders)

\* the scan moves to the next item
Advance(p) ==
    LET pos == NextItem(folders, p.f, p.i)
    IN  [p EXCEPT !.f = pos[1], !.i = pos[2]]

\* items.Item(i) raises: continue
PollItemUnreadable ==
    /\ AtItem
    /\ ~CurrentItem.itemOk
    /\ poll' = Advance(poll)
    /\ UNCHANGED << unique, POLL_MAX_SCAN, SCAN_FOLDERS, ns, scan, threads, mail_log, reply_log, attachment_log, files, folders,
                    MAX_ATTACH_SIZE_MB, clock, ops, last_send, bulk, capture >>

\* reading Subject or Body raises: nothing in the loop handles it, the
\* exception leaves poll_inbox
PollItemRaises ==
    /\ AtItem
    /\ CurrentItem.itemOk
    /\ ~CutoffSkips(CurrentItem, cutoff_dt)
    /\ ~CurrentItem.subjectOk \/ ~CurrentItem.bodyOk
    /\ poll' = [poll EXCEPT !.pc = "raised"]
    /\ UNCHANGED << unique, POLL_MAX_SCAN, SCAN_FOLDERS, ns, scan, threads, mail_log, reply_log, attachment_log, files, folders,
                    MAX_ATTACH_SIZE_MB, clock, ops, last_send, bulk, capture >>

\* the reply row written before the token is tested
PollItemNoTokenLogged ==
    /\ AtItem
    /\ CurrentItem.itemOk /\ CurrentItem.subjectOk /\ CurrentItem.bodyOk
    /\ ExtractToken(CurrentItem) = Empty
    /\ reply_log' = insert_reply_log(reply_log,
                        ReplyRow(CurrentItem, Empty,
                                 get_mail_meta_by_token(mail_log, Empty), clock))
    /\ poll' = Advance(poll)
    /\ UNCHANGED << unique, POLL_MAX_SCAN, SCAN_FOLDERS, ns, scan, threads, mail_log, attachment_log, files, folders,
                    MAX_ATTACH_SIZE_MB, clock, ops, last_send, bulk, capture >>

\* no token in the item: continue
PollItemNoToken ==
    /\ AtItem
    /\ CurrentItem.itemOk
    /\ \/ CutoffSkips(CurrentItem, cutoff_dt)
       \/ /\ CurrentItem.subjectOk /\ CurrentItem.bodyOk
          /\ ExtractToken(CurrentItem) = Empty
    /\ poll' = Advance(poll)
    /\ UNCHANGED << unique, POLL_MAX_SCAN, SCAN_FOLDERS, ns, scan, threads, mail_log, reply_log, attachment_log, files, folders,
                    MAX_ATTACH_SIZE_MB, clock, ops, last_send, bulk, capture >>

\* the counters after a matched item: hits += 1; scanned += 1
CountersMatched(p) == [p EXCEPT !.hits = @ + 1, !.scanned = @ + 1]

\* what the store does in the accesses made for one matched item: all
\* succeed, the lookup of the send record raises, or the insert of the
\* reply row raises
StoreOutcomes == {"ok", "lookup_failed", "insert_failed"}

\* meta = {} after the lookup raised, read with the defaults ""
NoMeta == [company |-> Empty, collection_id |-> Empty, product_desc |-> Empty]

\* a token is found: the meta data are looked up (an exception of the
\* lookup is caught and the meta data are empty), the reply row is inserted
\* (an exception of the insert leaves poll_inbox), the counters are raised
\* and the attachments are saved
PollItemMatched ==
    /\ AtItem
    /\ CurrentItem.itemOk /\ CurrentItem.subjectOk /\ CurrentItem.bodyOk
    /\ ~CutoffSkips(CurrentItem, cutoff_dt)
    /\ ExtractToken(CurrentItem) # Empty
    /\ \E db \in StoreOutcomes :
       LET it == CurrentItem
           token == ExtractToken(it)
           meta == IF db = "lookup_failed" THEN NoMeta
                   ELSE get_mail_meta_by_token(mail_log, token)
           row == ReplyRow(it, token, meta, clock)
           st == IF CaptureRuns(it, reply_log, row)
                 THEN save_attachments(attachment_log, files, MAX_ATTACH_SIZE_MB,
                                       meta.company, token, meta.collection_id,
                                       it, it.EntryID, row.received_on)
                 ELSE [log |-> attachment_log, files |-> files, saved |-> 0]
       IN  IF db = "insert_failed"
           THEN /\ poll' = [poll EXCEPT !.pc = "raised", !.db = db]
                /\ UNCHANGED << reply_log, clock, attachment_log, files, capture >>
           ELSE /\ reply_log' = insert_reply_log(reply_log, row)
                /\ clock' = IF it.timeOk THEN clock ELSE clock + 1
                /\ attachment_log' = st.log
                /\ files' = st.files
                /\ capture' = IF CaptureRuns(it, reply_log, row)
                              THEN [status |-> "returned", msg |-> it,
                                    company |-> meta.company, token |-> token,
                                    collection_id |-> meta.collection_id,
                                    saved |-> st.saved,
                                    rows_before |-> Len(attachment_log),
                                    files_before |-> files]
                              ELSE capture
                /\ poll' = Advance(CountersMatched([poll EXCEPT !.db = db]))
    /\ UNCHANGED << unique, POLL_MAX_SCAN, SCAN_FOLDERS, ns, scan, threads, mail_log, folders, MAX_ATTACH_SIZE_MB, ops,
                    last_send, bulk >>

\* a return of poll_inbox that first marks the send records that were
\* answered
PollReturnMarksReplied ==
    /\ poll.pc = "scan"
    /\ poll.f > Len(folders)
    /\ poll' = [poll EXCEPT !.pc = "returned"]
    /\ mail_log' = [k \in 1..Len(mail_log) |->
                      IF \E j \in 1..Len(reply_log) : reply_log[j].token = mail_log[k].token
                      THEN [mail_log[k] EXCEPT !.status = "REPLIED"]
                      ELSE mail_log[k]]
    /\ UNCHANGED << unique, POLL_MAX_SCAN, SCAN_FOLDERS, ns, scan, threads, reply_log, attachment_log, files, folders,
                    MAX_ATTACH_SIZE_MB, clock, ops, last_send, bulk, capture >>

\* the folders are exhausted: return {"scanned": scanned, "matched": hits}
PollReturn ==
    /\ poll.pc = "scan"
    /\ poll.f > Len(folders)
    /\ poll' = [poll EXCEPT !.pc = "returned"]
    /\ UNCHANGED << unique, POLL_MAX_SCAN, SCAN_FOLDERS, ns, scan, threads, mail_log, reply_log, attachment_log, files, folders,
                    MAX_ATTACH_SIZE_MB, clock, ops, last_send, bulk, capture >>

(***************************************************************************)
(* The mailbox the scans run on.                                           *)
(***************************************************************************)
\* the two tokens send_one can issue
Token1 == IssueToken(Hex1)

Token2 == IssueToken(Hex2)

\* Token1 with its suffix in lower case, as a mail client may rewrite it
Token1Lower == TOKEN_PREFIX \o Hex1

Bracketed(token) == << "[" >> \o token \o << "]" >>

\* the subject of a reply to a message send_one sent
ReplySubject(token) == << "R", "E", ":", " " >> \o ComposeSubject(token)

\* 50 MB, the ceiling of config.py, in bytes
FiftyMB == 50 * BytesPerMB

PdfSmall == [readable |-> TRUE, FileName |-> << "q", ".", "P", "D", "F" >>, nameOk |-> TRUE,
             Size |-> 100, sizeOk |-> TRUE, saveOk |-> TRUE, hashOk |-> TRUE,
             content |-> "c1"]

ZipOver == [PdfSmall EXCEPT !.FileName = << "b", ".", "z", "i", "p" >>,
                            !.Size = FiftyMB + 1, !.content = "c2"]

ZipAtCeiling == [PdfSmall EXCEPT !.FileName = << "b", ".", "z", "i", "p" >>,
                                 !.Size = FiftyMB, !.content = "c3"]

ZipSizeUnreadable == [ZipOver EXCEPT !.sizeOk = FALSE, !.content = "c4"]

PdfSaveFails == [PdfSmall EXCEPT !.saveOk = FALSE, !.content = "c5"]

PdfGone == [PdfSmall EXCEPT !.readable = FALSE, !.content = "c6"]

PdfNoHash == [PdfSmall EXCEPT !.nameOk = FALSE, !.hashOk = FALSE, !.content = "c7"]

\* a mail that is no reply to a sent message
PlainItem ==
    [itemOk |-> TRUE,
     Subject |-> << "H", "e", "l", "l", "o" >>, subjectOk |-> TRUE,
     Body |-> Empty, bodyOk |-> TRUE,
     HTMLBody |-> Empty, htmlOk |-> TRUE,
     ReceivedTime |-> 9, timeOk |-> TRUE,
     exchangeSmtp |-> Empty, senderAddress |-> Empty,
     SenderEmailAddress |-> EmailA,
     Attachments |-> << >>, attsOk |-> TRUE,
     EntryID |-> << "M", "0" >>]

\* the mails a folder is filled from, in the order they lie in the folder
MasterItems ==
    << \* a reply that keeps the subject
       [PlainItem EXCEPT !.Subject = ReplySubject(Token1),
                         !.exchangeSmtp = EmailA,
                         !.EntryID = << "M", "1" >>],
       \* the same reply with the token's suffix in lower case
       [PlainItem EXCEPT !.Subject = Bracketed(Token1Lower) \o << " ", "R", "e" >>,
                         !.exchangeSmtp = EmailA,
                         !.EntryID = << "M", "2" >>],
       \* no token, one attachment
       [PlainItem EXCEPT !.Attachments = << PdfSmall >>,
                         !.ReceivedTime = 8,
                         !.EntryID = << "M", "3" >>],
       \* one token in the subject, another in the plain body
       [PlainItem EXCEPT !.Subject = Bracketed(Token1) \o << " ", "R", "e" >>,
                         !.Body = << "s", "e", "e", " " >> \o Bracketed(Token2),
                         !.senderAddress = EmailB,
                         !.ReceivedTime = 8,
                         !.EntryID = << "M", "4" >>],
       \* one token in the plain body, another in the HTML body
       [PlainItem EXCEPT !.Body = << "s", "e", "e", " " >> \o Bracketed(Token2),
                         !.HTMLBody = << "<", "p", ">" >> \o Bracketed(Token1) \o << "<", "/", "p", ">" >>,
                         !.ReceivedTime = 7,
                         !.EntryID = << "M", "5" >>],
       \* the token in the text of the HTML body only
       [PlainItem EXCEPT !.HTMLBody = << "<", "p", ">" >> \o Bracketed(Token2) \o << "<", "/", "p", ">" >>,
                         !.ReceivedTime = 7,
                         !.EntryID = << "M", "6" >>],
       \* the token inside a tag of the HTML body only
       [PlainItem EXCEPT !.HTMLBody = << "<", "a", " ", "h", "r", "e", "f", "=", "\"" >> \o Bracketed(Token1) \o << "\"", ">", "x", "<", "/", "a", ">" >>,
                         !.ReceivedTime = 6,
                         !.EntryID = << "M", "7" >>],
       \* a mail whose Subject cannot be read
       [PlainItem EXCEPT !.Subject = ReplySubject(Token2),
                         !.subjectOk = FALSE,
                         !.ReceivedTime = 6,
                         !.EntryID = << "M", "8" >>],
       \* a reply with a small and an oversized attachment
       [PlainItem EXCEPT !.Subject = ReplySubject(Token1),
                         !.Attachments = << PdfSmall, ZipOver >>,
                         !.ReceivedTime = 5,
                         !.EntryID = << "M", "9" >>],
       \* a reply whose received time cannot be read, with attachments
       [PlainItem EXCEPT !.Subject = ReplySubject(Token2),
                         !.Attachments = << ZipAtCeiling, ZipSizeUnreadable,
                                            PdfSaveFails, PdfGone, PdfNoHash >>,
                         !.timeOk = FALSE,
                         !.ReceivedTime = 4,
                         !.EntryID = Empty],
       \* an item that cannot be fetched
       [PlainItem EXCEPT !.itemOk = FALSE,
                         !.ReceivedTime = 3],
       \* the newest reply, lying last in the folder
       [PlainItem EXCEPT !.Subject = ReplySubject(Token2),
                         !.HTMLBody = << "<", "p", ">" >> \o << "H", "e", "l", "l", "o" >> \o << "<", "/", "p", ">" >>,
                         !.htmlOk = FALSE,
                         !.ReceivedTime = 10,
                         !.EntryID = << "M", "A" >>],
       \* a reply newer still, lying after it
       [PlainItem EXCEPT !.Subject = ReplySubject(Token1),
                         !.senderAddress = EmailB,
                         !.ReceivedTime = 11,
                         !.EntryID = << "M", "B" >>],
       \* a reply with one attachment
       [PlainItem EXCEPT !.Subject = ReplySubject(Token2),
                         !.Attachments = << PdfSmall >>,
                         !.ReceivedTime = 2,
                         !.EntryID = << "M", "C" >>],
       \* a reply with an attachment, whose Attachments cannot be read
       [PlainItem EXCEPT !.Subject = ReplySubject(Token1),
                         !.Attachments = << PdfSmall >>,
                         !.attsOk = FALSE,
                         !.ReceivedTime = 1,
                         !.EntryID = << "M", "D" >>] >>

\* the values of MAX_ATTACH_SIZE_MB and POLL_MAX_SCAN of an installation:
\* those of config.py, the size ceiling switched off, and a scan of one item
\* per folder
Settings == {<< 50, 400 >>, << 0, 400 >>, << 50, 1 >>}

\* the item lists of a folder
ItemWindows == Windows(MasterItems, MaxItems)

\* a folder whose Items cannot be obtained
BrokenFolder == [itemsOk |-> FALSE, items |-> << >>]

\* the candidate folders of a mailbox: one folder of mails, alone or after
\* a folder whose Items cannot be obtained
Mailboxes ==
    {<< [itemsOk |-> TRUE, items |-> w] >> : w \in ItemWindows}
    \cup {<< BrokenFolder, [itemsOk |-> TRUE, items |-> w] >> :
             w \in {v \in ItemWindows : Len(v) = 1}}

(***************************************************************************)
(* The state after init_db() on a new database, with an empty attachment   *)
(* directory; the mailbox and the size ceiling are those of the            *)
(* installation.                                                           *)
(***************************************************************************)
Init ==
    /\ mail_log = << >>
    /\ reply_log = << >>
    /\ attachment_log = << >>
    /\ files = {}
    /\ folders \in Mailboxes
    /\ \E c \in Settings : MAX_ATTACH_SIZE_MB = c[1] /\ POLL_MAX_SCAN = c[2]
    /\ clock = 0
    /\ ops = 0
    /\ last_send = NoSend
    /\ bulk = NoBulk
    /\ poll = NoPoll
    /\ capture = NoCapture
    /\ threads = << >>
    /\ NoFolderScan
    /\ unique = NoUnique

Next ==
    \/ SendOne
    \/ BulkStart
    \/ BulkSkipRow
    \/ BulkSendRow
    \/ BulkReturn
    \/ PollStart
    \/ PollItemUnreadable
    \/ PollItemRaises
    \/ PollItemNoToken
    \/ PollItemMatched
    \/ PollReturn

Spec == Init /\ [][Next]_vars

(***************************************************************************)
(* Properties.                                                             *)
(***************************************************************************)
\* the positions <<folder, item>> of the mailbox
Positions ==
    UNION {{<< f, k >> : k \in 1..Len(folders[f].items)} : f \in 1..Len(folders)}

\* the item at a position, in the order the scan reads the folder
ItemAt(p) == SortNewestFirst(folders[p[1]].items)[p[2]]

\* the positions a scan that runs to its end reads: those of the folders
\* that yield their items, within the scan count, whose item can be fetched
ExaminedPositions ==
    {p \in Positions :
        /\ folders[p[1]].itemsOk
        /\ p[2] <= ScanCount(folders[p[1]])
        /\ ItemAt(p).itemOk}

\* the item can be read as far as the token search needs
Readable(it) == it.itemOk /\ it.subjectOk /\ it.bodyOk

\* the first match of the token pattern in the subject, else in the plain
\* body, else in the text given for the HTML body, without its brackets;
\* Empty when there is none
FirstMatch(it, html) ==
    LET texts == << it.Subject, it.Body, html >>
        hit == {n \in 1..3 : TOKEN_RE_found(texts[n])}
    IN  IF hit = {} THEN Empty
        ELSE LET n == CHOOSE m \in hit : \A o \in hit : m <= o
             IN  SubSeq(TOKEN_RE_group0(texts[n]), 2, TokenReLen - 1)

\* the reply row r was written for the item it, with the token tok
RowOfItem(r, it, tok) ==
    /\ r.token = tok
    /\ r.from_email = SenderEmail(it)
    /\ r.parse_json.subject = it.Subject
    /\ r.has_attachments = HasAttachments(it)
    /\ it.timeOk => r.received_on = [src |-> "item", t |-> it.ReceivedTime]

----------------------------------------------------------------------------
----------------------------------------------------------------------------
\* C2: bulk_send ends by returning, whatever send raised, and returns one
\* result for every row that has an address and whose send did not raise.
C2_BulkIsolatesFailures ==
    bulk.pc \in {"returned", "raised"} =>
        /\ bulk.pc = "returned"
        /\ Len(bulk.results) =
              Cardinality({i \in 1..Len(bulk.rows) :
                  /\ SafeStr(bulk.rows[i].Email) # Empty
                  /\ ~bulk.rows[i].sendRaises})

----------------------------------------------------------------------------
\* C3: a scan step on an item that holds no token in its subject, plain
\* body or HTML body leaves reply_log, attachment_log and the attachment
\* directory as they are.
C3_NoTokenNoWrite ==
    [][(/\ AtItem
        /\ Readable(CurrentItem)
        /\ ~TOKEN_RE_found(CurrentItem.Subject)
        /\ ~TOKEN_RE_found(CurrentItem.Body)
        /\ ~TOKEN_RE_found(CurrentItem.HTMLBody))
       => (/\ reply_log' = reply_log
           /\ attachment_log' = attachment_log
           /\ files' = files)]_vars

\* a scan has passed a mail without a token that carries an attachment,
\* and nothing is written
C3_Witness ==
    /\ poll.pc = "returned"
    /\ \E p \in ExaminedPositions :
          /\ Readable(ItemAt(p))
          /\ FirstMatch(ItemAt(p), ItemAt(p).HTMLBody) = Empty
          /\ Len(ItemAt(p).Attachments) > 0
    /\ reply_log = << >>
    /\ attachment_log = << >>
    /\ files = {}

----------------------------------------------------------------------------
\* C4: mail_log holds at most one row per token, and the row of the token
\* of the latest send_one call that returned holds the values of that call.
C4_OneMailRowPerToken ==
    /\ \A i, j \in 1..Len(mail_log) :
          mail_log[i].token = mail_log[j].token => i = j
    /\ last_send.status = "returned" =>
          \E i \in 1..Len(mail_log) :
             /\ mail_log[i].token = last_send.token
             /\ mail_log[i].email = last_send.to_email
             /\ mail_log[i].company = last_send.company
             /\ mail_log[i].collection_id = last_send.collection_id
             /\ mail_log[i].product_desc = last_send.product_desc

\* bulk_send has sent two messages that drew the same token: the row of
\* the second recipient has replaced the row of the first
C4_Witness ==
    /\ bulk.pc = "returned"
    /\ Len(bulk.results) = 2
    /\ bulk.results[1].token = bulk.results[2].token
    /\ bulk.results[1].email # bulk.results[2].email
    /\ Len(mail_log) = 1
    /\ mail_log[1].email = bulk.results[2].email

----------------------------------------------------------------------------
\* C5: when send_one has returned, the token it returned is not empty,
\* mail_log holds a row with that token, status "SENT" and the subject
\* "[" + token + "] " + SUBJECT_BASE, and get_mail_meta_by_token gives the
\* company and the topic of the call.
C5_SendRecorded ==
    last_send.status = "returned" =>
        /\ last_send.token # Empty
        /\ \E i \in 1..Len(mail_log) :
              /\ mail_log[i].token = last_send.token
              /\ mail_log[i].status = "SENT"
              /\ mail_log[i].subject =
                    << "[" >> \o last_send.token \o << "]", " " >> \o SUBJECT_BASE
        /\ get_mail_meta_by_token(mail_log, last_send.token).company
              = last_send.company
        /\ get_mail_meta_by_token(mail_log, last_send.token).collection_id
              = last_send.collection_id

\* send_one has returned for a@x.com, Acme, T1
C5_Witness ==
    /\ last_send.status = "returned"
    /\ last_send.to_email = EmailA
    /\ last_send.company = Acme
    /\ last_send.collection_id = TopicT1

----------------------------------------------------------------------------
\* C6: a reply row whose token equals the token of a send record up to the
\* case of its letters carries that send record's token.
C6_CaseInsensitiveToken ==
    \A i \in 1..Len(reply_log), j \in 1..Len(mail_log) :
       Upper(reply_log[i].token) = Upper(mail_log[j].token)
          => reply_log[i].token = mail_log[j].token

----------------------------------------------------------------------------
\* C7 as stated: every reply row carries the first match of its item in
\* the subject, else the plain body, else the HTML body after its markup
\* is stripped.
C7_FirstMatchStrippedHtml ==
    \A i \in 1..Len(reply_log) :
       \E p \in ExaminedPositions :
          /\ Readable(ItemAt(p))
          /\ FirstMatch(ItemAt(p),
                        IF ItemAt(p).htmlOk
                        THEN StripTags(ItemAt(p).HTMLBody, 1) ELSE Empty) # Empty
          /\ RowOfItem(reply_log[i], ItemAt(p),
                       FirstMatch(ItemAt(p),
                                  IF ItemAt(p).htmlOk
                                  THEN StripTags(ItemAt(p).HTMLBody, 1) ELSE Empty))

\* C7 as amended: every reply row carries the first match of its item in
\* the subject, else the plain body, else the HTML body as it is read
\* (markup included); and once a scan has returned, every item with such
\* a match has a row with it.
C7_FirstMatchRawHtml ==
    /\ \A i \in 1..Len(reply_log) :
          \E p \in ExaminedPositions :
             /\ Readable(ItemAt(p))
             /\ FirstMatch(ItemAt(p),
                           IF ItemAt(p).htmlOk THEN ItemAt(p).HTMLBody ELSE Empty)
                   # Empty
             /\ RowOfItem(reply_log[i], ItemAt(p),
                          FirstMatch(ItemAt(p),
                                     IF ItemAt(p).htmlOk
                                     THEN ItemAt(p).HTMLBody ELSE Empty))
    /\ poll.pc = "returned" =>
          \A p \in ExaminedPositions :
             (/\ Readable(ItemAt(p))
              /\ FirstMatch(ItemAt(p),
                            IF ItemAt(p).htmlOk THEN ItemAt(p).HTMLBody ELSE Empty)
                    # Empty) =>
                \E i \in 1..Len(reply_log) :
                   RowOfItem(reply_log[i], ItemAt(p),
                             FirstMatch(ItemAt(p),
                                        IF ItemAt(p).htmlOk
                                        THEN ItemAt(p).HTMLBody ELSE Empty))

\* a scan has recorded a mail with one token in its subject and another in
\* its plain body under the subject's token, and a mail with one token in
\* its plain body and another in its HTML body under the plain body's
C7_Witness ==
    /\ poll.pc = "returned"
    /\ \E p, q \in ExaminedPositions :
          /\ TOKEN_RE_found(ItemAt(p).Subject) /\ TOKEN_RE_found(ItemAt(p).Body)
          /\ TOKEN_RE_group0(ItemAt(p).Subject) # TOKEN_RE_group0(ItemAt(p).Body)
          /\ \E i \in 1..Len(reply_log) :
                /\ reply_log[i].parse_json.subject = ItemAt(p).Subject
                /\ Bracketed(reply_log[i].token) = TOKEN_RE_group0(ItemAt(p).Subject)
          /\ ~TOKEN_RE_found(ItemAt(q).Subject)
          /\ TOKEN_RE_found(ItemAt(q).Body) /\ TOKEN_RE_found(ItemAt(q).HTMLBody)
          /\ TOKEN_RE_group0(ItemAt(q).Body) # TOKEN_RE_group0(ItemAt(q).HTMLBody)
          /\ \E i \in 1..Len(reply_log) :
                /\ reply_log[i].parse_json.subject = ItemAt(q).Subject
                /\ Bracketed(reply_log[i].token) = TOKEN_RE_group0(ItemAt(q).Body)

----------------------------------------------------------------------------
\* C8: no error in reading an item makes poll_inbox raise.
C8_ItemErrorsNeverAbort == poll.pc # "raised"

----------------------------------------------------------------------------
\* C9: when poll_inbox returns, scanned is the number of items it examined,
\* matched the number of those in which a token was found, and matched is
\* at most scanned.
C9_ScannedCountsExamined ==
    poll.pc = "returned" =>
        /\ poll.scanned = Cardinality(ExaminedPositions)
        /\ poll.hits = Cardinality({p \in ExaminedPositions :
                                       ExtractToken(ItemAt(p)) # Empty})
        /\ poll.hits <= poll.scanned

----------------------------------------------------------------------------
\* C10: after _save_attachments has returned, each attachment it could
\* fetch has one row; an attachment whose size is over a non-zero ceiling
\* has a row with empty saved_path and sha256 and no file was written for
\* it; an attachment that is not over the ceiling (none is when the
\* ceiling is 0) and whose save succeeds has a row with its path and its
\* file; and the value returned counts exactly the latter.
C10_SizeCeiling ==
    capture.status = "returned" =>
        LET atts == capture.msg.Attachments
            fetched(k) == atts[k].readable
            idx == SelectSeq([k \in 1..Len(atts) |-> k], fetched)
            rows == SubSeq(attachment_log, capture.rows_before + 1,
                           Len(attachment_log))
            over(k) == /\ MAX_ATTACH_SIZE_MB # 0
                       /\ Fsize(atts[k]) > MAX_ATTACH_SIZE_MB * BytesPerMB
        IN  /\ Len(rows) = Len(idx)
            /\ \A j \in 1..Len(idx) :
                  /\ over(idx[j]) =>
                        /\ rows[j].saved_path = Empty
                        /\ rows[j].sha256 = Empty
                        /\ ~\E f \in files \ capture.files_before :
                               f[2] = atts[idx[j]].content
                  /\ (~over(idx[j]) /\ atts[idx[j]].saveOk) =>
                        /\ rows[j].saved_path # Empty
                        /\ << rows[j].saved_path, atts[idx[j]].content >> \in files
            /\ capture.saved =
                  Cardinality({j \in 1..Len(idx) :
                                  ~over(idx[j]) /\ atts[idx[j]].saveOk})
            /\ MAX_ATTACH_SIZE_MB = 0 =>
                  \A j \in 1..Len(idx) :
                     atts[idx[j]].saveOk => rows[j].saved_path # Empty

\* _save_attachments has returned, under the ceiling of 50 MB, for a
\* message with an attachment over the ceiling and one it saved
C10_Witness ==
    /\ capture.status = "returned"
    /\ MAX_ATTACH_SIZE_MB = 50
    /\ capture.saved >= 1
    /\ \E k \in 1..Len(capture.msg.Attachments) :
          /\ capture.msg.Attachments[k].readable
          /\ Fsize(capture.msg.Attachments[k]) > 50 * BytesPerMB

----------------------------------------------------------------------------
\* the n-th path _unique_path tries for base_name in dest_dir: the plain
\* target for n = 0, the target with "(n)" before its extension after that
CandidatePath(dest_dir, base_name, n) ==
    IF n = 0 THEN PathJoin(dest_dir, base_name)
    ELSE PathJoin(dest_dir, Splitext(base_name)[1] \o << "(" >> \o IntToStr(n)
                            \o << ")" >> \o Splitext(base_name)[2])

\* the rows the latest call of _save_attachments appended
CaptureRows == SubSeq(attachment_log, capture.rows_before + 1, Len(attachment_log))

\* the topic directory of the latest call of _save_attachments
CaptureDir == DestDir(capture.collection_id)

\* C11: with one poller, no save overwrites a file: the non-empty
\* saved_path values of attachment_log are pairwise distinct and each names
\* a file; a call of _save_attachments keeps every file that existed before
\* it, saves only to paths that did not exist, and each path it saves to is
\* the first free one of target, target(1), target(2), ...
C11_NeverOverwrites ==
    /\ \A i, j \in 1..Len(attachment_log) :
          (/\ attachment_log[i].saved_path # Empty
           /\ attachment_log[i].saved_path = attachment_log[j].saved_path) => i = j
    /\ \A i \in 1..Len(attachment_log) :
          attachment_log[i].saved_path # Empty =>
             attachment_log[i].saved_path \in ExistingPaths(files)
    /\ \A f, g \in files : f[1] = g[1] => f = g
    /\ capture.status = "returned" =>
          /\ capture.files_before \subseteq files
          /\ \A j \in 1..Len(CaptureRows) :
                CaptureRows[j].saved_path # Empty =>
                   LET before == ExistingPaths(capture.files_before) \cup
                                 {CaptureRows[k].saved_path : k \in 1..(j - 1)}
                   IN  /\ CaptureRows[j].saved_path \notin before
                       /\ \E n \in 0..Len(attachment_log) :
                             /\ CaptureRows[j].saved_path =
                                   CandidatePath(CaptureDir, CaptureRows[j].file_name, n)
                             /\ \A m \in 0..(n - 1) :
                                   CandidatePath(CaptureDir, CaptureRows[j].file_name, m)
                                      \in before

\* one call has saved two attachments with the same target name into an
\* empty directory: the first under the target, the second under "(1)"
C11_Witness ==
    /\ capture.status = "returned"
    /\ capture.files_before = {}
    /\ \E j, k \in 1..Len(CaptureRows) :
          /\ j < k
          /\ CaptureRows[j].file_name = CaptureRows[k].file_name
          /\ CaptureRows[j].saved_path =
                CandidatePath(CaptureDir, CaptureRows[j].file_name, 0)
          /\ CaptureRows[k].saved_path =
                PathJoin(CaptureDir,
                         Splitext(CaptureRows[k].file_name)[1]
                            \o << "(", "1", ")" >> \o Splitext(CaptureRows[k].file_name)[2])
          /\ \E f, g \in files :
                /\ f[1] = CaptureRows[j].saved_path
                /\ g[1] = CaptureRows[k].saved_path
                /\ f[2] # g[2]

----------------------------------------------------------------------------
\* the directory part of a path
DirOf(path) == SubSeq(path, 1, RFind(path, {"/"}) - 1)

\* C12: no topic directory holds two files with the same content (the same
\* content hash).
C12_OneFilePerContent ==
    \A f, g \in files :
       (DirOf(f[1]) = DirOf(g[1]) /\ Sha256(f[2]) = Sha256(g[2])) => f = g

----------------------------------------------------------------------------
\* the attachments of a message that atts.Item(i) yields
FetchedAttachments(it) ==
    {k \in 1..Len(it.Attachments) : it.Attachments[k].readable}

\* C13: a scan step on a readable item that holds a token without a row in
\* mail_log, in which the insert into the store works, does not raise; it
\* leaves a reply row for the item with empty
\* company, topic and description, raises the matched counter by one, and
\* when the item has attachments, _save_attachments is run on it and writes
\* one row per attachment it can fetch.
C13_UnknownTokenProcessed ==
    [][(/\ AtItem
        /\ Readable(CurrentItem)
        /\ ExtractToken(CurrentItem) # Empty
        /\ \A i \in 1..Len(mail_log) : mail_log[i].token # ExtractToken(CurrentItem)
        /\ poll'.db # "insert_failed")
       => (/\ poll'.pc = "scan"
           /\ poll'.hits = poll.hits + 1
           /\ \E i \in 1..Len(reply_log') :
                 /\ RowOfItem(reply_log'[i], CurrentItem, ExtractToken(CurrentItem))
                 /\ reply_log'[i].company = Empty
                 /\ reply_log'[i].collection_id = Empty
                 /\ reply_log'[i].product_desc = Empty
           /\ HasAttachments(CurrentItem) = 1 =>
                 /\ capture'.status = "returned"
                 /\ capture'.msg = CurrentItem
                 /\ Len(attachment_log') =
                       Len(attachment_log) + Cardinality(FetchedAttachments(CurrentItem))
                 /\ \A j \in (Len(attachment_log) + 1)..Len(attachment_log') :
                       attachment_log'[j].token = ExtractToken(CurrentItem))]_vars

\* a scan has returned with one match while mail_log is empty: the reply
\* row has no company and no topic, and its attachment is saved
C13_Witness ==
    /\ poll.pc = "returned"
    /\ poll.hits = 1
    /\ mail_log = << >>
    /\ Len(reply_log) = 1
    /\ reply_log[1].token = Token1
    /\ reply_log[1].company = Empty
    /\ reply_log[1].collection_id = Empty
    /\ capture.status = "returned"
    /\ capture.saved = 1
    /\ Len(attachment_log) = 2
    /\ Cardinality(files) = 1

(***************************************************************************)
(* poll_inbox run by pollers side by side.                                 *)
(*                                                                         *)
(* Each poller runs poll_inbox once, over the same mailbox, log store and  *)
(* attachment directory.  A step is one statement of the store (a SQLite   *)
(* statement is atomic) or one call of the file system: the lookup and     *)
(* the insert of the reply row; the os.path.exists loop of _unique_path;   *)
(* att.SaveAsFile with the hash and the attachment row.  Between two steps *)
(* of a poller the other may take any number of its own.  A poller's       *)
(* record holds its position (folder f, item i, attachment a), its         *)
(* counters and the locals received_on and save_path.                      *)
(***************************************************************************)
Pollers == {"p1", "p2"}

NoPoller == [pc |-> "idle", f |-> 0, i |-> 0, a |-> 0, hits |-> 0, scanned |-> 0,
             saved |-> 0, received_on |-> Empty, save_path |-> Empty]

\* the item poller p is at
PollerItem(p) == SortNewestFirst(folders[threads[p].f].items)[threads[p].i]

\* poller p is on an item, before its token search
PollerAtItem(p) == threads[p].pc = "item" /\ threads[p].f <= Len(folders)

\* company and collection_id as poller p has looked them up for its item
PollerMeta(p) == get_mail_meta_by_token(mail_log, ExtractToken(PollerItem(p)))

\* the attachment poller p is at
PollerAttachment(p) == PollerItem(p).Attachments[threads[p].a]

\* the row poller p writes for its attachment
PollerAttachmentRow(p, saved_path, sha) ==
    AttachmentRow(ExtractToken(PollerItem(p)), PollerItem(p).EntryID,
                  threads[p].received_on, PollerMeta(p).company,
                  PollerAttachment(p), threads[p].a, saved_path, sha)

\* what the poller's step leaves unchanged besides the store and the files
PollerFrame == UNCHANGED << unique, POLL_MAX_SCAN, SCAN_FOLDERS, ns, scan, mail_log, folders, MAX_ATTACH_SIZE_MB, ops,
                            last_send, bulk, poll, capture >>

\* poll_inbox is called by p
PollerStart(p) ==
    /\ threads[p].pc = "idle"
    /\ LET pos == FirstItemFrom(folders, 1)
       IN  threads' = [threads EXCEPT ![p] = [@ EXCEPT !.pc = "item",
                                                      !.f = pos[1], !.i = pos[2]]]
    /\ UNCHANGED << reply_log, attachment_log, files, clock >>
    /\ PollerFrame

\* items.Item(i) raises, or the item holds no token: continue
PollerItemSkipped(p) ==
    /\ PollerAtItem(p)
    /\ \/ ~PollerItem(p).itemOk
       \/ CutoffSkips(PollerItem(p), cutoff_dt)
       \/ /\ Readable(PollerItem(p))
          /\ ExtractToken(PollerItem(p)) = Empty
    /\ threads' = [threads EXCEPT ![p] = Advance(@)]
    /\ UNCHANGED << reply_log, attachment_log, files, clock >>
    /\ PollerFrame

\* reading Subject or Body raises: the exception leaves poll_inbox
PollerItemRaises(p) ==
    /\ PollerAtItem(p)
    /\ PollerItem(p).itemOk
    /\ ~CutoffSkips(PollerItem(p), cutoff_dt)
    /\ ~PollerItem(p).subjectOk \/ ~PollerItem(p).bodyOk
    /\ threads' = [threads EXCEPT ![p] = [@ EXCEPT !.pc = "raised"]]
    /\ UNCHANGED << reply_log, attachment_log, files, clock >>
    /\ PollerFrame

\* a token is found: the reply row is inserted (one INSERT OR IGNORE
\* statement) and the counters are raised; with attachments the poller
\* enters the loop of _save_attachments
PollerItemMatched(p) ==
    /\ PollerAtItem(p)
    /\ Readable(PollerItem(p))
    /\ ~CutoffSkips(PollerItem(p), cutoff_dt)
    /\ ExtractToken(PollerItem(p)) # Empty
    /\ LET it == PollerItem(p)
           row == ReplyRow(it, ExtractToken(it), PollerMeta(p), clock)
       IN  /\ reply_log' = insert_reply_log(reply_log, row)
           /\ clock' = IF it.timeOk THEN clock ELSE clock + 1
           /\ threads' = [threads EXCEPT ![p] =
                 IF CaptureRuns(it, reply_log, row)
                 THEN [CountersMatched(@) EXCEPT !.pc = "check", !.a = 1,
                                                 !.received_on = row.received_on]
                 ELSE Advance(CountersMatched(@))]
    /\ UNCHANGED << attachment_log, files >>
    /\ PollerFrame

\* the attachments of the item are done: on to the next item
PollerAttachmentsDone(p) ==
    /\ threads[p].pc = "check"
    /\ threads[p].a > Len(PollerItem(p).Attachments)
    /\ threads' = [threads EXCEPT ![p] = Advance([@ EXCEPT !.pc = "item", !.a = 0])]
    /\ UNCHANGED << reply_log, attachment_log, files, clock >>
    /\ PollerFrame

\* atts.Item(i) raises (no row), or the attachment is over the ceiling (a
\* row without path and hash): continue
PollerAttachmentSkipped(p) ==
    /\ threads[p].pc = "check"
    /\ threads[p].a <= Len(PollerItem(p).Attachments)
    /\ \/ /\ ~PollerAttachment(p).readable
          /\ attachment_log' = attachment_log
       \/ /\ PollerAttachment(p).readable
          /\ OverCeiling(MAX_ATTACH_SIZE_MB, Fsize(PollerAttachment(p)))
          /\ attachment_log' = insert_attachment_log(attachment_log,
                                   PollerAttachmentRow(p, Empty, Empty))
    /\ threads' = [threads EXCEPT ![p] = [@ EXCEPT !.a = @ + 1]]
    /\ UNCHANGED << reply_log, files, clock >>
    /\ PollerFrame

\* save_path = _unique_path(dest_dir, target_fname): the first candidate
\* that does not exist now
PollerPathChosen(p) ==
    /\ threads[p].pc = "check"
    /\ threads[p].a <= Len(PollerItem(p).Attachments)
    /\ PollerAttachment(p).readable
    /\ ~OverCeiling(MAX_ATTACH_SIZE_MB, Fsize(PollerAttachment(p)))
    /\ threads' = [threads EXCEPT ![p] =
          [@ EXCEPT !.pc = "save",
                    !.save_path =
                        UniquePath(ExistingPaths(files),
                                   DestDir(PollerMeta(p).collection_id),
                                   TargetFname(PollerMeta(p).company,
                                               ExtractToken(PollerItem(p)),
                                               PollerAttachment(p), threads[p].a))]]
    /\ UNCHANGED << reply_log, attachment_log, files, clock >>
    /\ PollerFrame

\* att.SaveAsFile(save_path), then the row: without path and hash when the
\* save raises, else with the path and the hash of the file
PollerSave(p) ==
    /\ threads[p].pc = "save"
    /\ IF PollerAttachment(p).saveOk
       THEN /\ files' = SaveAsFile(files, threads[p].save_path,
                                   PollerAttachment(p).content)
            /\ attachment_log' = insert_attachment_log(attachment_log,
                  PollerAttachmentRow(p, threads[p].save_path,
                      IF PollerAttachment(p).hashOk
                      THEN Sha256(PollerAttachment(p).content) ELSE Empty))
            /\ threads' = [threads EXCEPT ![p] =
                  [@ EXCEPT !.pc = "check", !.a = @ + 1, !.saved = @ + 1,
                            !.save_path = Empty]]
       ELSE /\ files' = files
            /\ attachment_log' = insert_attachment_log(attachment_log,
                                     PollerAttachmentRow(p, Empty, Empty))
            /\ threads' = [threads EXCEPT ![p] =
                  [@ EXCEPT !.pc = "check", !.a = @ + 1, !.save_path = Empty]]
    /\ UNCHANGED << reply_log, clock >>
    /\ PollerFrame

\* the folders are exhausted: return the counters
PollerReturn(p) ==
    /\ threads[p].pc = "item"
    /\ threads[p].f > Len(folders)
    /\ threads' = [threads EXCEPT ![p] = [@ EXCEPT !.pc = "returned"]]
    /\ UNCHANGED << reply_log, attachment_log, files, clock >>
    /\ PollerFrame

\* one poller alone, or two side by side, under the ceiling of config.py
InitPollers ==
    /\ mail_log = << >>
    /\ reply_log = << >>
    /\ attachment_log = << >>
    /\ files = {}
    /\ folders \in Mailboxes
    /\ MAX_ATTACH_SIZE_MB = 50
    /\ POLL_MAX_SCAN = 400
    /\ clock = 0
    /\ ops = 0
    /\ last_send = NoSend
    /\ bulk = NoBulk
    /\ poll = NoPoll
    /\ capture = NoCapture
    /\ \E active \in (SUBSET Pollers) \ {{}} : threads = [p \in active |-> NoPoller]
    /\ NoFolderScan
    /\ unique = NoUnique

NextPollers ==
    \/ \E p \in DOMAIN threads : PollerStart(p)
    \/ \E p \in DOMAIN threads : PollerItemSkipped(p)
    \/ \E p \in DOMAIN threads : PollerItemRaises(p)
    \/ \E p \in DOMAIN threads : PollerItemMatched(p)
    \/ \E p \in DOMAIN threads : PollerAttachmentsDone(p)
    \/ \E p \in DOMAIN threads : PollerAttachmentSkipped(p)
    \/ \E p \in DOMAIN threads : PollerPathChosen(p)
    \/ \E p \in DOMAIN threads : PollerSave(p)
    \/ \E p \in DOMAIN threads : PollerReturn(p)

SpecPollers == InitPollers /\ [][NextPollers]_vars

----------------------------------------------------------------------------
\* the pairs of attachment rows that carry the same non-empty saved_path
SharedPathRows ==
    {r \in (1..Len(attachment_log)) \X (1..Len(attachment_log)) :
        /\ r[1] < r[2]
        /\ attachment_log[r[1]].saved_path # Empty
        /\ attachment_log[r[1]].saved_path = attachment_log[r[2]].saved_path}

\* C14: a save goes to a path that already holds a file only in a race of
\* two pollers: a poller that has chosen its path and not yet saved finds
\* the path taken only when another poller has saved in between, and two
\* attachment rows carry the same saved_path only when two pollers are
\* active and each has saved; with one poller neither happens.
C14_OverwriteOnlyInRace ==
    /\ \A p \in DOMAIN threads :
          (/\ threads[p].pc = "save"
           /\ threads[p].save_path \in ExistingPaths(files)) =>
             \E q \in DOMAIN threads \ {p} : threads[q].saved >= 1
    /\ SharedPathRows # {} =>
          /\ DOMAIN threads = Pollers
          /\ \A p \in Pollers : threads[p].saved >= 1

\* two pollers have saved to the same path, and the bytes the first one
\* stored there are gone from the directory
C14_Witness ==
    /\ DOMAIN threads = Pollers
    /\ \E r \in SharedPathRows :
          /\ attachment_log[r[1]].sha256 # attachment_log[r[2]].sha256
          /\ attachment_log[r[1]].sha256 # Empty
          /\ \A f \in files : Sha256(f[2]) # attachment_log[r[1]].sha256
          /\ \E f \in files : /\ f[1] = attachment_log[r[2]].saved_path
                              /\ Sha256(f[2]) = attachment_log[r[2]].sha256

----------------------------------------------------------------------------
\* every active poller has returned
AllPollersReturned == \A p \in DOMAIN threads : threads[p].pc = "returned"

\* C15: with pollers writing side by side, no two rows of reply_log share
\* the triple (token, from_email, received_on) at any moment, and when all
\* pollers have returned, every matched item whose received time can be
\* read has exactly one row, whichever way their steps interleaved.
C15_InsertIfAbsentUnderRace ==
    /\ \A i, j \in 1..Len(reply_log) :
          ReplyKey(reply_log[i]) = ReplyKey(reply_log[j]) => i = j
    /\ AllPollersReturned =>
          \A pos \in ExaminedPositions :
             (/\ Readable(ItemAt(pos))
              /\ ItemAt(pos).timeOk
              /\ FirstMatch(ItemAt(pos), HtmlTokenSource(ItemAt(pos))) # Empty) =>
                Cardinality({i \in 1..Len(reply_log) :
                    RowOfItem(reply_log[i], ItemAt(pos),
                              FirstMatch(ItemAt(pos), HtmlTokenSource(ItemAt(pos))))}) = 1

\* two pollers have both matched the one reply of the mailbox and have
\* returned: reply_log holds one row
C15_Witness ==
    /\ DOMAIN threads = Pollers
    /\ AllPollersReturned
    /\ \A p \in Pollers : threads[p].hits = 1
    /\ Len(reply_log) = 1
    /\ reply_log[1].received_on.src = "item"

(***************************************************************************)
(* The COM session of a thread.                                            *)
(*                                                                         *)
(* Each thread calls the top-level operations one after the other; the     *)
(* threads run side by side.  A thread's record holds: host, how the       *)
(* thread's host initialized COM before any operation ("none", "sta" or    *)
(* "mta"); co_count, the COM initializations outstanding on the thread;    *)
(* com_inited, the thread's attribute of mailer._thread_state (a           *)
(* threading.local); op and pc, the operation it runs and where it is;     *)
(* cleanup / inited_here, the local that tells the operation's finally     *)
(* block to uninitialize; left, the rows bulk_send has still to send;      *)
(* sent, the send_one calls bulk_send has made;                            *)
(* inits and uninits, the CoInitialize and CoUninitialize calls the        *)
(* operation has made; outcome, how the latest operation ended; calls, the *)
(* operations the thread has called.  op, inits and uninits keep their     *)
(* values after the operation, until the next one is called.               *)
(***************************************************************************)
ComThreads == {"t1", "t2"}

NoComThread(host) ==
    [host |-> host, co_count |-> IF host = "none" THEN 0 ELSE 1,
     com_inited |-> FALSE, op |-> "none", pc |-> "idle", cleanup |-> FALSE,
     inited_here |-> FALSE, left |-> 0, sent |-> 0, inits |-> 0, uninits |-> 0,
     outcome |-> "none", calls |-> 0]

\* getattr(_thread_state, "com_inited", False) read on thread t, with the
\* flag kept in one module-level variable that all threads share
ComInitedShared(th, t) == \E u \in DOMAIN th : th[u].com_inited

\* the flag not consulted: every call initializes for itself
ComInitedNever(th, t) == FALSE

\* getattr(_thread_state, "com_inited", False) read on thread t
ComInited(th, t) == th[t].com_inited

\* pythoncom.CoInitialize / CoInitializeEx(COINIT_APARTMENTTHREADED) on a
\* thread: RPC_E_CHANGED_MODE while an initialization of the host as
\* multithreaded is outstanding, another error when initFails, else success
CoInitializeOutcome(r, initFails) ==
    IF r.host = "mta" /\ r.co_count > 0 THEN "changed_mode"
    ELSE IF initFails THEN "error" ELSE "ok"

\* mailer._ensure_com_initialized on thread t, where the call of
\* CoInitialize does not raise: nothing and no cleanup when the flag is
\* set; else the flag is set and the cleanup function returned, with one
\* more initialization when CoInitialize took effect
EnsureComInitialized(th, t, took) ==
    IF ComInited(th, t) THEN th[t]
    ELSE IF took
    THEN [th[t] EXCEPT !.co_count = @ + 1, !.inits = @ + 1,
                       !.com_inited = TRUE, !.cleanup = TRUE]
    ELSE [th[t] EXCEPT !.com_inited = TRUE, !.cleanup = TRUE]

\* the operation of a thread ends
ComEnd(r, outcome) ==
    [r EXCEPT !.pc = "idle", !.outcome = outcome,
              !.cleanup = FALSE, !.inited_here = FALSE, !.left = 0,
              !.sent = 0, !.calls = @ + 1]

\* all but threads is left alone
ComFrame == UNCHANGED << unique, POLL_MAX_SCAN, SCAN_FOLDERS, ns, scan, mail_log, reply_log, attachment_log, files, folders,
                         MAX_ATTACH_SIZE_MB, clock, ops, last_send, bulk, poll,
                         capture >>

\* send_one or bulk_send is called on thread t: cleanup =
\* _ensure_com_initialized(), before the try block.  pythoncom.CoInitialize
\* is documented to ignore RPC_E_CHANGED_MODE; both that and a raise are
\* taken (changedRaises), so that neither behaviour of the library is
\* assumed
ComEnterMailer(t) ==
    /\ threads[t].pc = "idle"
    /\ threads[t].calls < MaxOps
    /\ \E op \in {"send_one", "bulk_send"}, initFails \in BOOLEAN,
          changedRaises \in BOOLEAN, n \in 0..MaxRows :
          LET r == [threads[t] EXCEPT !.inits = 0, !.uninits = 0, !.sent = 0,
                                      !.op = op]
              th == [threads EXCEPT ![t] = r]
              res == CoInitializeOutcome(r, initFails)
          IN  threads' = [threads EXCEPT ![t] =
                 IF /\ ~ComInited(th, t)
                    /\ \/ res = "error"
                       \/ res = "changed_mode" /\ changedRaises
                 THEN ComEnd(r, "raised")
                 ELSE [EnsureComInitialized(th, t, res = "ok") EXCEPT
                          !.pc = "body",
                          !.left = IF op = "bulk_send" THEN n ELSE 0]]
    /\ ComFrame

\* bulk_send calls send_one for a row: the nested _ensure_com_initialized,
\* the body, and the nested finally; when the body raises, the exception
\* goes on to the finally of bulk_send
ComNestedSendOne(t) ==
    /\ threads[t].pc = "body"
    /\ threads[t].op = "bulk_send"
    /\ threads[t].left > 0
    /\ \E raises \in BOOLEAN :
          LET outer == threads[t].cleanup
              r == EnsureComInitialized([threads EXCEPT ![t].cleanup = FALSE], t, TRUE)
              after == IF r.cleanup
                       THEN [r EXCEPT !.co_count = @ - 1, !.uninits = @ + 1,
                                      !.com_inited = FALSE]
                       ELSE r
          IN  threads' = [threads EXCEPT ![t] =
                 [after EXCEPT !.cleanup = outer,
                               !.left = @ - 1,
                               !.sent = @ + 1,
                               !.pc = IF raises THEN "raised" ELSE "body"]]
    /\ ComFrame

\* poll_inbox is called on thread t: com_apartment enters
ComEnterPoller(t) ==
    /\ threads[t].pc = "idle"
    /\ threads[t].calls < MaxOps
    /\ \E initFails \in BOOLEAN :
          LET r == [threads[t] EXCEPT !.inits = 0, !.uninits = 0, !.sent = 0,
                                      !.op = "poll_inbox"]
              res == CoInitializeOutcome(r, initFails)
          IN  threads' = [threads EXCEPT ![t] =
                 IF res = "error" THEN ComEnd(r, "raised")
                 ELSE IF res = "changed_mode"
                 THEN [r EXCEPT !.pc = "body"]
                 ELSE [r EXCEPT !.pc = "body",
                                !.co_count = @ + 1, !.inits = @ + 1,
                                !.inited_here = TRUE]]
    /\ ComFrame

\* the body of the operation ends, by its return statement or by an
\* exception
ComBodyEnds(t) ==
    /\ threads[t].pc = "body"
    /\ threads[t].left = 0
    /\ \E pc \in {"returning", "raised"} :
          threads' = [threads EXCEPT ![t].pc = pc]
    /\ ComFrame

\* the finally block: cleanup() of the mailer, or the CoUninitialize of
\* com_apartment when it initialized
ComFinally(t) ==
    /\ threads[t].pc \in {"returning", "raised"}
    /\ LET r == threads[t]
           released == IF r.op = "poll_inbox"
                       THEN (IF r.inited_here
                             THEN [r EXCEPT !.co_count = @ - 1, !.uninits = @ + 1]
                             ELSE r)
                       ELSE (IF r.cleanup
                             THEN [r EXCEPT !.co_count = @ - 1, !.uninits = @ + 1,
                                            !.com_inited = FALSE]
                             ELSE r)
       IN  threads' = [threads EXCEPT ![t] =
              ComEnd(released, IF r.pc = "raised" THEN "raised" ELSE "returned")]
    /\ ComFrame

InitCom ==
    /\ mail_log = << >>
    /\ reply_log = << >>
    /\ attachment_log = << >>
    /\ files = {}
    /\ folders = << >>
    /\ MAX_ATTACH_SIZE_MB = 50
    /\ POLL_MAX_SCAN = 400
    /\ clock = 0
    /\ ops = 0
    /\ last_send = NoSend
    /\ bulk = NoBulk
    /\ poll = NoPoll
    /\ capture = NoCapture
    /\ \E hosts \in [ComThreads -> {"none", "sta", "mta"}] :
          threads = [t \in ComThreads |-> NoComThread(hosts[t])]
    /\ NoFolderScan
    /\ unique = NoUnique

NextCom ==
    \/ \E t \in ComThreads : ComEnterMailer(t)
    \/ \E t \in ComThreads : ComNestedSendOne(t)
    \/ \E t \in ComThreads : ComEnterPoller(t)
    \/ \E t \in ComThreads : ComBodyEnds(t)
    \/ \E t \in ComThreads : ComFinally(t)

SpecCom == InitCom /\ [][NextCom]_vars

----------------------------------------------------------------------------
\* C16: on every thread, an operation makes at most one COM initialization
\* and, once it has ended (by return or by exception), has made exactly one
\* uninitialization for it, and the thread's flag is false; while send_one
\* or bulk_send runs on a thread, that thread's own flag is set, whatever
\* the other threads do; and on a thread whose host did not initialize COM
\* as multithreaded, and for poll_inbox on any thread, initializations and
\* uninitializations are equal in number after the operation.
C16_ComReleased ==
    \A t \in DOMAIN threads :
       LET r == threads[t]
       IN  /\ r.inits <= 1
           /\ r.uninits <= 1
           /\ r.pc = "idle" =>
                 /\ ~r.com_inited
                 /\ r.inits = 1 => r.uninits = 1
                 /\ (r.host # "mta" \/ r.op = "poll_inbox") => r.inits = r.uninits
           /\ r.pc # "idle" =>
                 /\ r.uninits = 0
                 /\ r.op \in {"send_one", "bulk_send"} => r.com_inited
                 /\ r.op = "poll_inbox" => r.inits = (IF r.inited_here THEN 1 ELSE 0)
                 /\ r.host # "mta" => r.inits = 1

\* a bulk_send that raised has initialized once and uninitialized once on
\* its thread, while send_one runs on the other thread with its flag set
C16_Witness ==
    \E t, u \in DOMAIN threads :
       /\ t # u
       /\ threads[t].pc = "idle"
       /\ threads[t].op = "bulk_send"
       /\ threads[t].outcome = "raised"
       /\ threads[t].inits = 1
       /\ threads[t].uninits = 1
       /\ ~threads[t].com_inited
       /\ threads[u].pc = "body"
       /\ threads[u].op = "send_one"
       /\ threads[u].com_inited

----------------------------------------------------------------------------
\* C17: a scan in which an access to the store has failed has raised: it
\* does not go on, and does not return its counters.
C17_StoreErrorsPropagate == poll.db # "ok" => poll.pc = "raised"

(***************************************************************************)
(* poller.py: the candidate folders of a scan.  A folder is a record with  *)
(* its EntryID, its Name, the folders below it (Folders, which cannot be   *)
(* enumerated when foldersOk is FALSE), and whether its Items can be       *)
(* obtained and sorted (itemsOk) and their Count read (countOk).  A store  *)
(* is a record with its inbox, which GetDefaultFolder returns unless       *)
(* inboxOk is FALSE.  The result of a resolution is a sequence of no or    *)
(* one folder.                                                             *)
(***************************************************************************)

\* the most folder paths configured, and the most stores of a namespace
MaxPaths == 2
MaxStores == 2

\* str.split(sep) from position i on, cur being the part read so far
RECURSIVE SplitFrom(_, _, _, _)
SplitFrom(s, sep, i, cur) ==
    IF i > Len(s) THEN << cur >>
    ELSE IF s[i] = sep THEN << cur >> \o SplitFrom(s, sep, i + 1, << >>)
    ELSE SplitFrom(s, sep, i + 1, Append(cur, s[i]))

\* [p for p in path.split("/") if p]
PathParts(path) == SelectSeq(SplitFrom(path, "/", 1, << >>), LAMBDA q : q # << >>)

\* str(a).strip().lower() == str(b).strip().lower()
SameName(a, b) == Lower(Strip(a)) = Lower(Strip(b))

\* the loop over folder.Folders of _resolve_folder_by_path: the first folder
\* of that name, none when there is none or the enumeration raises
FindFolder(folder, part) ==
    IF ~folder.foldersOk THEN << >>
    ELSE LET hits == {i \in 1..Len(folder.Folders) : SameName(folder.Folders[i].Name, part)}
         IN  IF hits = {} THEN << >>
             ELSE << folder.Folders[CHOOSE i \in hits : \A j \in hits : i <= j] >>

\* _resolve_folder_by_path from the k-th part on
RECURSIVE ResolveFrom(_, _, _)
ResolveFrom(folder, path_parts, k) ==
    IF k > Len(path_parts) THEN << folder >>
    ELSE LET found == FindFolder(folder, path_parts[k])
         IN  IF found = << >> THEN << >>
             ELSE ResolveFrom(found[1], path_parts, k + 1)

resolve_folder_by_path(root_folder, path_parts) == ResolveFrom(root_folder, path_parts, 2)

InboxName == << "i", "n", "b", "o", "x" >>

\* the body of the loop over SCAN_FOLDERS: the folder one configured path
\* names below the inbox of one store
ResolvePath(inbox, raw) ==
    LET path == Strip(raw)
        parts == PathParts(path)
    IN  IF path = << >> THEN << >>
        ELSE IF parts = << >> \/ Lower(Strip(parts[1])) # InboxName THEN << >>
        ELSE IF Len(parts) = 1 THEN << inbox >>
        ELSE resolve_folder_by_path(inbox, parts)

\* the loop over SCAN_FOLDERS from the k-th path on
RECURSIVE ResolvedInStore(_, _, _)
ResolvedInStore(inbox, paths, k) ==
    IF k > Len(paths) THEN << >>
    ELSE ResolvePath(inbox, paths[k]) \o ResolvedInStore(inbox, paths, k + 1)

\* the loop over ns.Stores from the s-th store on; a store whose inbox
\* cannot be obtained is passed over
RECURSIVE ResolvedFrom(_, _, _)
ResolvedFrom(stores, paths, s) ==
    IF s > Len(stores) THEN << >>
    ELSE (IF stores[s].inboxOk THEN ResolvedInStore(stores[s].inbox, paths, 1) ELSE << >>)
         \o ResolvedFrom(stores, paths, s + 1)

\* the dictionary keyed by EntryID, from the k-th folder on: each folder
\* once, at its first place
RECURSIVE UniqFrom(_, _)
UniqFrom(fs, k) ==
    IF k > Len(fs) THEN << >>
    ELSE (IF \E j \in 1..(k - 1) : fs[j].EntryID = fs[k].EntryID THEN << >> ELSE << fs[k] >>)
         \o UniqFrom(fs, k + 1)

iter_configured_folders(stores, paths) ==
    IF paths = << >> THEN << >>
    ELSE UniqFrom(ResolvedFrom(stores, paths, 1), 1)

\* every store's inbox and the folders right below it, from the s-th store
\* on; a store whose inbox cannot be obtained is passed over, and so are
\* the folders below an inbox that cannot be enumerated
RECURSIVE DefaultFrom(_, _)
DefaultFrom(stores, s) ==
    IF s > Len(stores) THEN << >>
    ELSE (IF ~stores[s].inboxOk THEN << >>
          ELSE << stores[s].inbox >>
               \o (IF stores[s].inbox.foldersOk THEN stores[s].inbox.Folders ELSE << >>))
         \o DefaultFrom(stores, s + 1)

iter_default_folders(stores) == DefaultFrom(stores, 1)

\* folders = _iter_configured_folders(ns); if not folders: the default ones
CandidateFolders(stores, paths) ==
    LET configured == iter_configured_folders(stores, paths)
    IN  IF configured = << >> THEN iter_default_folders(stores) ELSE configured

\* the folder poll_inbox is at
ScanFolder == scan.candidates[scan.k]

AtFolder == scan.pc = "scan" /\ scan.k <= Len(scan.candidates)

FolderFrame == UNCHANGED << unique, mail_log, reply_log, attachment_log, files, folders, MAX_ATTACH_SIZE_MB, clock, ops, last_send, bulk, poll, capture, threads, POLL_MAX_SCAN, SCAN_FOLDERS, ns >>

\* poll_inbox is called and settles its candidate folders
FoldersResolve ==
    /\ scan.pc = "idle"
    /\ scan' = [pc |-> "scan", candidates |-> CandidateFolders(ns, SCAN_FOLDERS), k |-> 1, scanned |-> << >>]
    /\ FolderFrame

\* folder.Items or items.Sort raises: continue
FolderSkipped ==
    /\ AtFolder
    /\ ~ScanFolder.itemsOk
    /\ scan' = [scan EXCEPT !.k = @ + 1]
    /\ FolderFrame

\* reading items.Count raises, outside the try: the error leaves poll_inbox
FolderCountRaises ==
    /\ AtFolder
    /\ ScanFolder.itemsOk
    /\ ~ScanFolder.countOk
    /\ scan' = [scan EXCEPT !.pc = "raised"]
    /\ FolderFrame

\* the loop over the items of the folder runs to its end
FolderScanned ==
    /\ AtFolder
    /\ ScanFolder.itemsOk
    /\ ScanFolder.countOk
    /\ scan' = [scan EXCEPT !.k = @ + 1, !.scanned = Append(@, ScanFolder.EntryID)]
    /\ FolderFrame

\* the loop over the folders is over: poll_inbox returns
FoldersReturn ==
    /\ scan.pc = "scan"
    /\ scan.k > Len(scan.candidates)
    /\ scan' = [scan EXCEPT !.pc = "returned"]
    /\ FolderFrame

\* the folders of the stores
Folder(id, name, kids) == [EntryID |-> id, Name |-> name, foldersOk |-> TRUE, Folders |-> kids, itemsOk |-> TRUE, countOk |-> TRUE]

NameInbox == << "I", "n", "b", "o", "x" >>
NameExternal == << "E", "x", "t", "e", "r", "n", "a", "l" >>
NameExternalPadded == << " ", "E", "X", "T", "E", "R", "N", "A", "L", " " >>
NameSuppliers == << "S", "u", "p", "p", "l", "i", "e", "r", "s" >>
NameQuotes == << "Q", "u", "o", "t", "e", "s" >>
NameBroken == << "B", "r", "o", "k", "e", "n" >>
NameUncounted == << "U", "n", "c", "o", "u", "n", "t", "e", "d" >>
NameSent == << "S", "e", "n", "t" >>
NameMissing == << "M", "i", "s", "s", "i", "n", "g" >>

Slash == << "/" >>

\* a store with folders below its inbox, one of them two levels down
StoreA ==
    [inboxOk |-> TRUE,
     inbox |-> Folder("A", NameInbox,
        << Folder("A1", NameExternal, << >>),
           Folder("A2", NameSuppliers, << Folder("A21", NameQuotes, << >>) >>) >>)]

\* a store whose inbox GetDefaultFolder does not return
StoreB == [inboxOk |-> FALSE, inbox |-> Folder("B", NameInbox, << >>)]

\* a store with a folder whose Items cannot be obtained, a folder whose name
\* differs in case and blanks, and a folder whose Count cannot be read
StoreC ==
    [inboxOk |-> TRUE,
     inbox |-> Folder("C", NameInbox,
        << [Folder("C1", NameBroken, << >>) EXCEPT !.itemsOk = FALSE],
           Folder("C2", NameExternalPadded, << >>),
           [Folder("C3", NameUncounted, << >>) EXCEPT !.countOk = FALSE] >>)]

\* a store the folders of whose inbox cannot be enumerated
StoreD ==
    [inboxOk |-> TRUE,
     inbox |-> [Folder("D", NameInbox, << Folder("D1", NameExternal, << >>) >>) EXCEPT !.foldersOk = FALSE]]

MasterStores == << StoreB, StoreA, StoreC, StoreD >>

\* the configured paths the model draws SCAN_FOLDERS from
MasterPaths ==
    << NameSent,
       NameInbox,
       NameInbox \o Slash \o NameExternal,
       << " " >> \o Lower(NameInbox) \o Slash \o Slash \o Upper(NameExternal) \o Slash \o << " " >>,
       NameInbox \o Slash \o NameBroken,
       NameInbox,
       NameInbox \o Slash \o NameMissing,
       NameInbox \o Slash \o NameSuppliers \o Slash \o NameQuotes,
       NameInbox \o Slash \o NameSuppliers \o Slash \o NameMissing,
       NameInbox \o Slash \o NameUncounted,
       << " " >> >>

\* one call of poll_inbox on the stores of a namespace, with a configured
\* list of folder paths, seen folder by folder
InitFolders ==
    /\ mail_log = << >>
    /\ reply_log = << >>
    /\ attachment_log = << >>
    /\ files = {}
    /\ folders = << >>
    /\ MAX_ATTACH_SIZE_MB = 50
    /\ POLL_MAX_SCAN = 400
    /\ clock = 0
    /\ ops = 0
    /\ last_send = NoSend
    /\ bulk = NoBulk
    /\ poll = NoPoll
    /\ capture = NoCapture
    /\ threads = << >>
    /\ SCAN_FOLDERS \in Windows(MasterPaths, MaxPaths)
    /\ ns \in Windows(MasterStores, MaxStores)
    /\ scan = [pc |-> "idle", candidates |-> << >>, k |-> 0, scanned |-> << >>]
    /\ unique = NoUnique

NextFolders ==
    \/ FoldersResolve
    \/ FolderSkipped
    \/ FolderCountRaises
    \/ FolderScanned
    \/ FoldersReturn

SpecFolders == InitFolders /\ [][NextFolders]_vars

\* the EntryIDs of a sequence of folders
EntryIDs(fs) == [i \in 1..Len(fs) |-> fs[i].EntryID]

\* C18: errors in resolving a folder or in enumerating its items stay with
\* that folder: a folder a configured path resolves to in some store is a
\* candidate whatever the other paths do, poll_inbox never ends in the error
\* of a folder, and once it has returned it went through the items of every
\* candidate folder whose item list can be obtained, sorted and counted.
C18_FolderErrorsIsolated ==
    /\ scan.pc # "idle" =>
          \A s \in 1..Len(ns) : \A k \in 1..Len(SCAN_FOLDERS) :
             ns[s].inboxOk =>
                \A i \in 1..Len(ResolvePath(ns[s].inbox, SCAN_FOLDERS[k])) :
                   \E c \in 1..Len(scan.candidates) :
                      scan.candidates[c].EntryID = ResolvePath(ns[s].inbox, SCAN_FOLDERS[k])[i].EntryID
    /\ scan.pc # "raised"
    /\ scan.pc = "returned" =>
          scan.scanned = EntryIDs(SelectSeq(scan.candidates, LAMBDA f : f.itemsOk /\ f.countOk))

\* C19: the candidate folders are those resolved from the configured list
\* whenever that list is not empty, and the default ones only when it is.
C19_ConfiguredListDecides ==
    scan.pc # "idle" =>
       scan.candidates = IF SCAN_FOLDERS = << >> THEN iter_default_folders(ns)
                         ELSE iter_configured_folders(ns, SCAN_FOLDERS)

\* the items of a folder that were received after the item it
NewerThan(items, it) == {j \in 1..Len(items) : items[j].ReceivedTime > it.ReceivedTime}

\* min(POLL_MAX_SCAN, item count) of the f-th folder
ScanBound(f) ==
    IF Len(folders[f].items) < POLL_MAX_SCAN THEN Len(folders[f].items) ELSE POLL_MAX_SCAN

\* C20: in each folder the scan goes through the items newest first and
\* through the min(POLL_MAX_SCAN, item count) newest ones only: the item it
\* stands at is the i-th of the folder with i within that bound and fewer
\* than i items newer than it, it enters a folder at the first item and
\* moves on by one, it leaves a folder (without an error) only from the last
\* item within the bound, and rows and files are written for the item it
\* stands at only.
C20_NewestWithinBound ==
    [][/\ (poll'.pc = "scan" /\ poll'.f <= Len(folders)) =>
             /\ 1 <= poll'.i
             /\ poll'.i <= ScanBound(poll'.f)
             /\ Cardinality(NewerThan(folders[poll'.f].items, CurrentItem')) < poll'.i
             /\ poll'.i = IF AtItem /\ poll'.f = poll.f THEN poll.i + 1 ELSE 1
       /\ (AtItem /\ poll'.pc \in {"scan", "returned"} /\ (poll'.pc = "returned" \/ poll'.f # poll.f)) =>
             poll.i = ScanBound(poll.f)
       /\ (reply_log' # reply_log \/ attachment_log' # attachment_log \/ files' # files) =>
             /\ AtItem
             /\ \A k \in (Len(reply_log) + 1)..Len(reply_log') :
                   /\ reply_log'[k].parse_json.subject = CurrentItem.Subject
                   /\ reply_log'[k].from_email = SenderEmail(CurrentItem)
      ]_vars

\* a scan of one item per folder has returned from a folder of two replies,
\* the newer lying last, and recorded the newer one only
C20_Witness ==
    /\ poll.pc = "returned"
    /\ POLL_MAX_SCAN = 1
    /\ Len(folders) = 1
    /\ Len(folders[1].items) = 2
    /\ folders[1].items[2].ReceivedTime > folders[1].items[1].ReceivedTime
    /\ \A j \in 1..2 : Readable(folders[1].items[j]) /\ TOKEN_RE_found(folders[1].items[j].Subject)
    /\ Len(reply_log) = 1
    /\ reply_log[1].received_on = [src |-> "item", t |-> folders[1].items[2].ReceivedTime]
    /\ poll.hits = 1

\* the rows the last call of _save_attachments appended to attachment_log
NewAttachmentRows == SubSeq(attachment_log, capture.rows_before + 1, Len(attachment_log))

\* C21: the value _save_attachments returns is the number of files the call
\* wrote to disk, which is the number of rows it appended with a saved_path;
\* the rows it appended without one are not counted.
C21_ReturnsFilesWritten ==
    capture.status = "returned" =>
        /\ capture.saved = Cardinality(files \ capture.files_before)
        /\ capture.saved = Cardinality({k \in 1..Len(NewAttachmentRows) : NewAttachmentRows[k].saved_path # Empty})
        /\ \A k \in 1..Len(NewAttachmentRows) :
              NewAttachmentRows[k].saved_path # Empty =>
                 \E f \in files \ capture.files_before : f[1] = NewAttachmentRows[k].saved_path

\* _save_attachments has returned from a message of which it wrote some
\* attachments to disk and recorded others without writing them
C21_Witness ==
    /\ capture.status = "returned"
    /\ capture.saved >= 1
    /\ Len(NewAttachmentRows) > capture.saved
    /\ \E k \in 1..Len(capture.msg.Attachments) :
          capture.msg.Attachments[k].readable /\ ~capture.msg.Attachments[k].saveOk

\* C22: a call of _save_attachments appends one row per attachment of the
\* message, whatever became of the attachment.
C22_OneRowPerAttachment ==
    capture.status = "returned" =>
        Len(NewAttachmentRows) = Len(capture.msg.Attachments)

\* the attachments of the captured message that atts.Item(i) returned, in
\* their order
FetchedIndexes ==
    SelectSeq([k \in 1..Len(capture.msg.Attachments) |-> k], LAMBDA k : capture.msg.Attachments[k].readable)

\* C23: when SaveAsFile fails for an attachment, _save_attachments does not
\* raise: the attachment has its row, with an empty saved_path and an empty
\* sha256, it is not counted, and the attachments after it are handled as if
\* nothing had happened (each fetched attachment has its row, in order, and
\* those saved have their file).
C23_SaveFailureRecorded ==
    capture.status = "returned" =>
        /\ Len(NewAttachmentRows) = Len(FetchedIndexes)
        /\ \A j \in 1..Len(FetchedIndexes) :
              LET att == capture.msg.Attachments[FetchedIndexes[j]]
              IN  /\ NewAttachmentRows[j].file_size_bytes = Fsize(att)
                  /\ (~att.saveOk /\ ~OverCeiling(MAX_ATTACH_SIZE_MB, Fsize(att))) =>
                        /\ NewAttachmentRows[j].saved_path = Empty
                        /\ NewAttachmentRows[j].sha256 = Empty
                  /\ (att.saveOk /\ ~OverCeiling(MAX_ATTACH_SIZE_MB, Fsize(att))) =>
                        << NewAttachmentRows[j].saved_path, att.content >> \in files
        /\ capture.saved =
              Cardinality({j \in 1..Len(FetchedIndexes) :
                  /\ capture.msg.Attachments[FetchedIndexes[j]].saveOk
                  /\ ~OverCeiling(MAX_ATTACH_SIZE_MB, Fsize(capture.msg.Attachments[FetchedIndexes[j]]))})

\* _save_attachments has returned from a message with an attachment whose
\* save failed and a later attachment that it saved
C23_Witness ==
    /\ capture.status = "returned"
    /\ \E j \in 1..Len(FetchedIndexes) : \E l \in (j + 1)..Len(FetchedIndexes) :
          /\ ~capture.msg.Attachments[FetchedIndexes[j]].saveOk
          /\ ~OverCeiling(MAX_ATTACH_SIZE_MB, Fsize(capture.msg.Attachments[FetchedIndexes[j]]))
          /\ NewAttachmentRows[j].saved_path = Empty
          /\ NewAttachmentRows[l].saved_path # Empty

\* C24: a row of reply_log is never changed or deleted: in every step each
\* row that was there is still there, at its place and with every field as
\* it was, whatever operation takes the step; reply_log only grows.
C24_ReplyRowsFrozen ==
    [][/\ Len(reply_log') >= Len(reply_log)
       /\ \A k \in 1..Len(reply_log) : reply_log'[k] = reply_log[k]]_vars

\* a reply was recorded while its token was unknown, and send_one has since
\* created the send record of that token: the reply row still has the empty
\* topic it was written with
C24_Witness ==
    /\ ops = 2
    /\ poll.pc = "idle"
    /\ bulk.pc = "idle"
    /\ last_send.status = "returned"
    /\ \E k \in 1..Len(reply_log) : \E m \in 1..Len(mail_log) :
          /\ reply_log[k].token = mail_log[m].token
          /\ mail_log[m].token = last_send.token
          /\ reply_log[k].collection_id = Empty
          /\ mail_log[m].collection_id # Empty

\* C25: poll_inbox leaves mail_log as it is: no step of a scan, from its
\* start to its return or to the error that ends it, adds, changes or
\* removes a row of mail_log.
C25_PollLeavesMailLog ==
    [][(poll.pc = "scan" \/ poll'.pc = "scan") => mail_log' = mail_log]_vars

\* a scan has returned after it looked up a send record, recorded the reply
\* and saved an attachment of it
C25_Witness ==
    /\ poll.pc = "returned"
    /\ poll.hits >= 1
    /\ capture.status = "returned"
    /\ capture.saved >= 1
    /\ \E m \in 1..Len(mail_log) :
          /\ mail_log[m].token = capture.token
          /\ mail_log[m].status = "SENT"
          /\ \E k \in 1..Len(reply_log) :
                reply_log[k].token = capture.token /\ reply_log[k].collection_id = mail_log[m].collection_id

\* the rows of a data frame that have an address, in their order
AddressedRows(rows) == SelectSeq(rows, LAMBDA r : SafeStr(r.Email) # Empty)

\* the addresses of the sends of a trace, in their order
SentTo(trace) ==
    LET sends == SelectSeq(trace, LAMBDA e : e.op = "send")
    IN  [k \in 1..Len(sends) |-> sends[k].email]

\* C26: bulk_send takes the rows in input order: while it runs and when it
\* has returned, the sends made and the results gathered are those of the
\* rows with an address among the rows taken so far, in their order, and it
\* returns only after the last row; every send is followed by the throttle
\* delay before anything else happens; and a row without an address is
\* passed over with nothing sent, recorded or gathered and the loop going on.
C26_BulkInOrderWithDelay ==
    [][/\ bulk'.pc \in {"loop", "returned"} =>
             LET done == AddressedRows(SubSeq(bulk'.rows, 1, bulk'.idx))
             IN  /\ Len(bulk'.results) = Len(done)
                 /\ \A k \in 1..Len(done) : bulk'.results[k].email = SafeStr(done[k].Email)
                 /\ SentTo(bulk'.trace) = [k \in 1..Len(done) |-> SafeStr(done[k].Email)]
                 /\ \A k \in 1..Len(bulk'.trace) :
                       bulk'.trace[k].op = "send" =>
                          k < Len(bulk'.trace) /\ bulk'.trace[k + 1].op = "sleep"
       /\ bulk'.pc = "returned" => bulk'.idx = Len(bulk'.rows)
       /\ (bulk.pc = "loop" /\ bulk.idx < Len(bulk.rows) /\ SafeStr(bulk.rows[bulk.idx + 1].Email) = Empty) =>
             /\ bulk' = [bulk EXCEPT !.idx = @ + 1]
             /\ mail_log' = mail_log
             /\ last_send' = last_send
      ]_vars

\* bulk_send has returned from a data frame of two rows with an address:
\* two results in the order of the rows, each send followed by the delay
C26_Witness ==
    /\ bulk.pc = "returned"
    /\ Len(bulk.rows) = 2
    /\ Len(bulk.results) = 2
    /\ bulk.results[1].email = SafeStr(bulk.rows[1].Email)
    /\ bulk.results[2].email = SafeStr(bulk.rows[2].Email)
    /\ bulk.results[1].email # bulk.results[2].email
    /\ Len(bulk.trace) = 4
    /\ bulk.trace[2].op = "sleep" /\ bulk.trace[3].op = "send"

\* C27: when the lookup in Sent Items raises, or ends without a subject
\* that contains the token among the items it may look at, send_one has
\* still returned and the send record of its token stands with the status
\* "SENT" and an empty entryid and conversation_id.
C27_LookupFailureLeavesIdsEmpty ==
    (last_send.status = "returned" /\ last_send.lookup # "found") =>
        \E i \in 1..Len(mail_log) :
           /\ mail_log[i].token = last_send.token
           /\ mail_log[i].status = "SENT"
           /\ mail_log[i].entryid = Empty
           /\ mail_log[i].conversation_id = Empty

\* poller p is in _save_attachments for its item
InCapture(p) == threads[p].pc \in {"check", "save"}

\* the rows of reply_log with the key of an item whose received time is
\* recorded as received_on
ItemReplyRows(it, received_on) ==
    {k \in 1..Len(reply_log) :
        /\ reply_log[k].token = ExtractToken(it)
        /\ reply_log[k].from_email = SenderEmail(it)
        /\ reply_log[k].received_on = received_on}

\* C28: for a matched item the reply row is written first and the capture
\* of attachments comes after it: a poller is in _save_attachments only for
\* an item whose reply row stands in reply_log with has_attachments = 1, and
\* rows of attachment_log and files are written by such a poller only, under
\* the token of its item; and the step that matches an item goes on to
\* _save_attachments exactly when the Attachments of the item hold at least
\* one attachment (an Attachments collection that cannot be read counts as
\* empty), which is exactly when the row of the item has has_attachments = 1.
C28_ReplyRowBeforeCapture ==
    [][/\ \A p \in DOMAIN threads :
             InCapture(p) =>
                /\ PollerItem(p).attsOk /\ Len(PollerItem(p).Attachments) > 0
                /\ \E k \in ItemReplyRows(PollerItem(p), threads[p].received_on) :
                      reply_log[k].has_attachments = 1
       /\ \A p \in DOMAIN threads :
             (threads[p].pc = "item" /\ threads'[p].hits = threads[p].hits + 1) =>
                /\ threads'[p].pc = "check" <=>
                      (PollerItem(p).attsOk /\ Len(PollerItem(p).Attachments) > 0)
                /\ attachment_log' = attachment_log /\ files' = files
                /\ \E k \in 1..Len(reply_log') :
                      /\ ReplyKey(reply_log'[k]) =
                            << ExtractToken(PollerItem(p)), SenderEmail(PollerItem(p)),
                               ReceivedOn(PollerItem(p), clock) >>
                      /\ reply_log'[k].has_attachments = 1 <=> threads'[p].pc = "check"
       /\ (attachment_log' # attachment_log \/ files' # files) =>
             \E p \in DOMAIN threads :
                /\ InCapture(p)
                /\ threads'[p] # threads[p]
                /\ \A k \in (Len(attachment_log) + 1)..Len(attachment_log') :
                      attachment_log'[k].token = ExtractToken(PollerItem(p))
      ]_vars

\* a poller has returned from a folder of two replies, one without an
\* attachment that can be read and one with an attachment: two reply rows,
\* one with the flag, and the attachment row of the latter
C28_Witness ==
    /\ \E p \in DOMAIN threads : threads[p].pc = "returned" /\ threads[p].hits = 2
    /\ Len(reply_log) = 2
    /\ \E k, l \in 1..2 :
          /\ reply_log[k].has_attachments = 0
          /\ reply_log[l].has_attachments = 1
          /\ Len(attachment_log) >= 1
          /\ \A a \in 1..Len(attachment_log) : attachment_log[a].token = reply_log[l].token

\* C29: every token send_one issues is TOKEN_PREFIX followed by exactly
\* eight characters, each a digit or an upper-case letter, so that the
\* token in brackets is a match of TOKEN_RE and the scan of a subject
\* composed with it finds this token.
C29_IssuedTokenInGrammar ==
    last_send.status = "returned" =>
        LET token == last_send.token
        IN  /\ Len(token) = Len(TOKEN_PREFIX) + TokenSuffixLen
            /\ SubSeq(token, 1, Len(TOKEN_PREFIX)) = TOKEN_PREFIX
            /\ \A i \in (Len(TOKEN_PREFIX) + 1)..Len(token) :
                  token[i] \in Digits \cup UpperLetters
            /\ TOKEN_RE_found(<< "[" >> \o token \o << "]" >>)
            /\ TOKEN_RE_group0(last_send.subject) = << "[" >> \o token \o << "]" >>
            /\ \E i \in 1..Len(mail_log) : mail_log[i].token = token

\* send_one has issued a token whose draw held letters
C29_Witness ==
    /\ last_send.status = "returned"
    /\ \E i \in 1..Len(last_send.token) :
          i > Len(TOKEN_PREFIX) /\ last_send.token[i] \in UpperLetters

\* C30: the stored name of a captured attachment is the sanitized company,
\* "_", the sanitized token and the extension of the original file name
\* when the company is not empty, and the sanitized token in the place of
\* the company when it is empty (the extension is compared without regard
\* to the case of its letters).
C30_StoredName ==
    capture.status = "returned" =>
        /\ Len(NewAttachmentRows) = Len(FetchedIndexes)
        /\ \A j \in 1..Len(FetchedIndexes) :
              LET att == capture.msg.Attachments[FetchedIndexes[j]]
                  orig == OrigFname(att, FetchedIndexes[j])
                  first == IF capture.company # Empty
                           THEN SanitizeFilename(capture.company)
                           ELSE SanitizeFilename(capture.token)
              IN  Lower(NewAttachmentRows[j].file_name) =
                     Lower(first \o << "_" >> \o SanitizeFilename(capture.token) \o Splitext(orig)[2])

----------------------------------------------------------------------------
\* the positions the running scan has gone past
PassedPositions ==
    {p \in ExaminedPositions :
        p[1] < poll.f \/ (p[1] = poll.f /\ p[2] < poll.i)}

\* the positions gone past whose item is readable and holds a token
PassedMatches ==
    {p \in PassedPositions :
        Readable(ItemAt(p)) /\ ExtractToken(ItemAt(p)) # Empty}

\* C31: the lookback window decides nothing: as long as a scan has not been
\* left by an exception, every readable token-bearing item it has gone past
\* has its reply row and is counted as matched, whether it was received
\* before the cutoff or after it.
C31_LookbackAdvisory ==
    poll.pc \in {"scan", "returned"} =>
        /\ poll.hits = Cardinality(PassedMatches)
        /\ \A p \in PassedMatches :
              \E i \in 1..Len(reply_log) :
                 RowOfItem(reply_log[i], ItemAt(p), ExtractToken(ItemAt(p)))

\* a scan has returned from a folder that holds a reply received before the
\* cutoff and one received after it: both have their rows
C31_Witness ==
    /\ poll.pc = "returned"
    /\ poll.hits = 2
    /\ \E p, q \in PassedMatches :
          /\ BeforeCutoff(ItemAt(p), cutoff_dt)
          /\ ItemAt(q).timeOk /\ ~BeforeCutoff(ItemAt(q), cutoff_dt)
          /\ \E i, j \in 1..Len(reply_log) :
                /\ reply_log[i].received_on = [src |-> "item", t |-> ItemAt(p).ReceivedTime]
                /\ reply_log[i].token = ExtractToken(ItemAt(p))
                /\ reply_log[j].received_on = [src |-> "item", t |-> ItemAt(q).ReceivedTime]
                /\ reply_log[j].token = ExtractToken(ItemAt(q))

----------------------------------------------------------------------------
\* the text s holds the text sub as a run of consecutive characters
Contains(s, sub) ==
    \E k \in 0..(Len(s) - Len(sub)) : SubSeq(s, k + 1, k + Len(sub)) = sub

\* the company, topic and description of the send record m
MetaOf(m) ==
    [company |-> m.company, collection_id |-> m.collection_id,
     product_desc |-> m.product_desc]

\* C32: a scan step on a readable item whose subject holds the subject of a
\* send record, and that is not left by an exception, extracts the token of
\* that record and hands insert_reply_log a row with the record's company,
\* topic and description.
C32_TokenRoundTrip ==
    [][\A k \in 1..Len(mail_log) :
          (/\ AtItem
           /\ Readable(CurrentItem)
           /\ Contains(CurrentItem.Subject, mail_log[k].subject)
           /\ poll'.pc = "scan")
          => (/\ ExtractToken(CurrentItem) = mail_log[k].token
              /\ reply_log' = insert_reply_log(reply_log,
                                  ReplyRow(CurrentItem, mail_log[k].token,
                                           MetaOf(mail_log[k]), clock)))]_vars

----------------------------------------------------------------------------
\* C33: mail_log changes only in a step of a send_one call whose message was
\* dispatched, and then its newest row is the row of that call's token with
\* status SENT; a call in which rendering, creation or the send raises
\* leaves mail_log as it was.
C33_RecordAfterDispatch ==
    [][/\ mail_log' # mail_log =>
             /\ last_send'.dispatched
             /\ Len(mail_log') > 0
             /\ mail_log'[Len(mail_log')].token = last_send'.token
             /\ mail_log'[Len(mail_log')].status = "SENT"
       /\ (last_send'.status = "raised" /\ (ops' # ops \/ bulk' # bulk)) =>
             /\ ~last_send'.dispatched
             /\ mail_log' = mail_log]_vars

\* a bulk_send call has recorded its first recipient's message, and the
\* send to the second recipient raised: mail_log holds the first row only
C33_Witness ==
    /\ bulk.pc = "raised"
    /\ bulk.idx = 2
    /\ last_send.status = "raised"
    /\ ~last_send.dispatched
    /\ Len(mail_log) = 1
    /\ mail_log[1].email = EmailB
    /\ mail_log[1].status = "SENT"

----------------------------------------------------------------------------
\* the mailbox is one folder with one mail: a readable reply with a token
\* and a readable received time that carries one attachment, which can be
\* fetched and saved and passes the size test
OneSaveableReply ==
    /\ Len(folders) = 1
    /\ folders[1].itemsOk
    /\ Len(folders[1].items) = 1
    /\ LET it == folders[1].items[1]
       IN  /\ Readable(it) /\ it.timeOk /\ it.attsOk
           /\ ExtractToken(it) # Empty
           /\ Len(it.Attachments) = 1
           /\ it.Attachments[1].readable /\ it.Attachments[1].saveOk
           /\ ~OverCeiling(MAX_ATTACH_SIZE_MB, Fsize(it.Attachments[1]))

\* the stored name and the directory of that reply's attachment while
\* mail_log holds no send record
ReplyTarget ==
    TargetFname(Empty, ExtractToken(folders[1].items[1]),
                folders[1].items[1].Attachments[1], 1)

\* C34: over a mailbox of one reply with one saveable attachment, with no
\* send in between, n scans that matched leave one reply row, n attachment
\* rows and n files, named target, target(1), ..., target(n-1); and every
\* scan that returns has run the capture and saved one file, also when its
\* reply row was there already.
C34_CaptureOnEveryScan ==
    (OneSaveableReply /\ mail_log = << >>) =>
        LET n == Len(attachment_log)
        IN  /\ Len(reply_log) = (IF n > 0 THEN 1 ELSE 0)
            /\ Cardinality(files) = n
            /\ ExistingPaths(files) =
                  {CandidatePath(DestDir(Empty), ReplyTarget, j) : j \in 0..(n - 1)}
            /\ \A j \in 1..n :
                  attachment_log[j].saved_path =
                     CandidatePath(DestDir(Empty), ReplyTarget, j - 1)
            /\ poll.pc = "returned" =>
                  /\ poll.hits = 1
                  /\ capture.status = "returned"
                  /\ capture.saved = 1
                  /\ capture.rows_before = n - 1

\* the second scan of that mailbox has returned: its reply row was there
\* already, and the second file is stored under the name with "(1)"
C34_Witness ==
    /\ OneSaveableReply
    /\ mail_log = << >>
    /\ poll.pc = "returned"
    /\ ops = 2
    /\ Len(reply_log) = 1
    /\ Len(attachment_log) = 2
    /\ capture.rows_before = 1
    /\ ExistingPaths(files) = {CandidatePath(DestDir(Empty), ReplyTarget, 0),
                               CandidatePath(DestDir(Empty), ReplyTarget, 1)}

----------------------------------------------------------------------------
\* C35: while bulk_send runs on a thread, from its entry to its finally
\* block and whatever number of send_one calls it has made, the thread's
\* flag is set, COM is initialized on the thread, no CoUninitialize has been
\* called, and the cleanup is still the one bulk_send holds.
C35_NestedSendKeepsCom ==
    \A t \in DOMAIN threads :
       (threads[t].op = "bulk_send" /\ threads[t].pc # "idle") =>
          /\ threads[t].com_inited
          /\ threads[t].cleanup
          /\ threads[t].uninits = 0
          /\ threads[t].co_count >= 1
          /\ threads[t].inits <= 1

\* bulk_send has sent to all its recipients, two of them, and has not
\* reached its cleanup: the initialization it made is the only one
C35_Witness ==
    \E t \in DOMAIN threads :
       /\ threads[t].op = "bulk_send"
       /\ threads[t].pc = "body"
       /\ threads[t].sent = 2
       /\ threads[t].left = 0
       /\ threads[t].host = "none"
       /\ threads[t].inits = 1
       /\ threads[t].co_count = 1
       /\ threads[t].com_inited

(***************************************************************************)
(* poller._unique_path by itself: called for a target name over a          *)
(* directory that holds any of the names the loop can come to, and         *)
(* followed, as in _save_attachments, by att.SaveAsFile on the path it     *)
(* returned.                                                               *)
(***************************************************************************)
\* the highest index among the numbered names a directory starts with
MaxTaken == 2

\* the target names _unique_path is called with: one with an extension, one
\* with a dot inside its name, one without an extension
UniqueBases ==
    {<< "q", ".", "p", "d", "f" >>,
     << "a", ".", "b", ".", "g", "z" >>,
     << "n", "o", "t", "e" >>}

\* the topic directory of the calls
UniqueDir == DestDir(TopicT1)

\* the name a file of target name base_name is stored under as the j-th of
\* its name: the target itself for j = 0
NumberedName(base_name, j) ==
    IF j = 0 THEN base_name
    ELSE LET dot == RFind(base_name, {"."})
         IN  IF dot <= 1 THEN base_name \o << "(" >> \o IntToStr(j) \o << ")" >>
             ELSE SubSeq(base_name, 1, dot - 1) \o << "(" >> \o IntToStr(j) \o << ")" >>
                  \o SubSeq(base_name, dot, Len(base_name))

\* the files a directory can hold at the start
StoredBefore ==
    {<< PathJoin(UniqueDir, NumberedName(b, j)), "old" >> :
        b \in UniqueBases, j \in 0..MaxTaken}

\* save_path = _unique_path(str(dest_dir), target_fname)
UniquePathCall ==
    /\ unique.pc = "idle"
    /\ ops < MaxOps
    /\ ops' = ops + 1
    /\ \E b \in UniqueBases :
          unique' = [pc |-> "returned", dest_dir |-> UniqueDir, base_name |-> b,
                     p |-> UniquePath(ExistingPaths(files), UniqueDir, b)]
    /\ UNCHANGED << mail_log, reply_log, attachment_log, files, folders,
                    MAX_ATTACH_SIZE_MB, clock, last_send, bulk, poll, capture,
                    threads, POLL_MAX_SCAN, SCAN_FOLDERS, ns, scan >>

\* att.SaveAsFile(save_path) on the path returned
UniquePathSaved ==
    /\ unique.pc = "returned"
    /\ files' = SaveAsFile(files, unique.p, "new")
    /\ unique' = NoUnique
    /\ UNCHANGED << mail_log, reply_log, attachment_log, folders,
                    MAX_ATTACH_SIZE_MB, clock, ops, last_send, bulk, poll, capture,
                    threads, POLL_MAX_SCAN, SCAN_FOLDERS, ns, scan >>

InitUniquePath ==
    /\ mail_log = << >>
    /\ reply_log = << >>
    /\ attachment_log = << >>
    /\ files \in SUBSET StoredBefore
    /\ folders = << >>
    /\ MAX_ATTACH_SIZE_MB = 50
    /\ POLL_MAX_SCAN = 400
    /\ clock = 0
    /\ ops = 0
    /\ last_send = NoSend
    /\ bulk = NoBulk
    /\ poll = NoPoll
    /\ capture = NoCapture
    /\ threads = << >>
    /\ NoFolderScan
    /\ unique = NoUnique

NextUniquePath ==
    \/ UniquePathCall
    \/ UniquePathSaved

SpecUniquePath == InitUniquePath /\ [][NextUniquePath]_vars

----------------------------------------------------------------------------
\* C36: a call of _unique_path over a directory returns: the target path
\* when no file has it; else the path with "(k)" before the extension for
\* the least k >= 1 that no file has, the target and every path with a
\* smaller index being held by a file.
C36_FirstFreeName ==
    unique.pc = "returned" =>
        LET exists == ExistingPaths(files)
            cand(n) == CandidatePath(unique.dest_dir, unique.base_name, n)
        IN  /\ unique.p \notin exists
            /\ \E k \in 0..Cardinality(exists) :
                  /\ unique.p = cand(k)
                  /\ \A j \in 0..(k - 1) : cand(j) \in exists

\* over a directory that holds the target and the name with "(2)" but not
\* the one with "(1)", the call has returned the name with "(1)"
C36_Witness ==
    /\ unique.pc = "returned"
    /\ unique.base_name = << "q", ".", "p", "d", "f" >>
    /\ PathJoin(UniqueDir, << "q", ".", "p", "d", "f" >>) \in ExistingPaths(files)
    /\ PathJoin(UniqueDir, << "q", "(", "2", ")", ".", "p", "d", "f" >>) \in ExistingPaths(files)
    /\ unique.p = PathJoin(UniqueDir, << "q", "(", "1", ")", ".", "p", "d", "f" >>)

----------------------------------------------------------------------------
\* C37: every row of attachment_log with a hash has a saved_path, and that
\* path names a file; and of the attachments a call of _save_attachments
\* saved, one whose file could not be read back for hashing has its row
\* with the path and an empty hash, one that could has the hash of its
\* content, and the value returned counts both.
C37_HashOnlyWithFile ==
    /\ \A i \in 1..Len(attachment_log) :
          attachment_log[i].sha256 # Empty =>
             /\ attachment_log[i].saved_path # Empty
             /\ attachment_log[i].saved_path \in ExistingPaths(files)
    /\ capture.status = "returned" =>
          /\ Len(NewAttachmentRows) = Len(FetchedIndexes)
          /\ \A j \in 1..Len(FetchedIndexes) :
                LET att == capture.msg.Attachments[FetchedIndexes[j]]
                    saved == att.saveOk /\ ~OverCeiling(MAX_ATTACH_SIZE_MB, Fsize(att))
                IN  /\ (saved /\ ~att.hashOk) =>
                          /\ NewAttachmentRows[j].saved_path # Empty
                          /\ NewAttachmentRows[j].sha256 = Empty
                    /\ (saved /\ att.hashOk) =>
                          NewAttachmentRows[j].sha256 = Sha256(att.content)
                    /\ ~saved => NewAttachmentRows[j].sha256 = Empty
          /\ capture.saved =
                Cardinality({j \in 1..Len(NewAttachmentRows) :
                                NewAttachmentRows[j].sha256 # Empty})
                + Cardinality({j \in 1..Len(NewAttachmentRows) :
                                  /\ NewAttachmentRows[j].sha256 = Empty
                                  /\ NewAttachmentRows[j].saved_path # Empty})

\* _save_attachments has returned 3 for a message of which it saved and
\* hashed two attachments, saved another whose file it could not hash, and
\* could not save a fourth
C37_Witness ==
    /\ capture.status = "returned"
    /\ capture.saved = 3
    /\ Cardinality({j \in 1..Len(NewAttachmentRows) :
                       NewAttachmentRows[j].sha256 # Empty}) = 2
    /\ \E j, k, l \in 1..Len(NewAttachmentRows) :
          /\ NewAttachmentRows[j].saved_path # Empty
          /\ NewAttachmentRows[j].sha256 # Empty
          /\ NewAttachmentRows[k].saved_path # Empty
          /\ NewAttachmentRows[k].sha256 = Empty
          /\ ~capture.msg.Attachments[FetchedIndexes[k]].hashOk
          /\ NewAttachmentRows[l].saved_path = Empty
          /\ ~capture.msg.Attachments[FetchedIndexes[l]].saveOk

====
